---- MODULE Spec2Model ----
(***************************************************************************)
(* A model of the calculation core of the Calculator repository: cell      *)
(* addressing, formula parsing (dependency extraction), the dependency     *)
(* graph and its topological order, the compute engine and the optimizer.  *)
(*                                                                         *)
(* Cell addresses are sequences of one-character strings, as the Python    *)
(* code treats them (str), e.g. <<"$","A","$","1">>.  Cell values (Python  *)
(* floats) are modelled by integers; every arithmetic operation used by    *)
(* the model is exact on them.                                             *)
(***************************************************************************)
EXTENDS Integers, Sequences, FiniteSets, TLC

(***************************************************************************)
(* State                                                                   *)
(***************************************************************************)
VARIABLES
    schema,     \* the Schema the engine is built from
    engine,     \* the ComputeEngine: formulas, graph, order
    pc,         \* per caller: "idle", "running", "returned", "raised"
    args,       \* per caller: the mapping object passed to compute
    passed,     \* per caller: the content of that mapping when compute was called
    callData,   \* per caller: data, compute's local working mapping
    pos,        \* per caller: the position of compute's loop in the order
    outcome,    \* per caller: what compute returned or raised
    evalLog,    \* per caller: the last evaluate_formula of the call
    optPc,      \* optimize: "idle", "solving", "ran", "returned", "raised"
    optValues,  \* optimize: values, the caller's starting mapping (base_values)
    optInitial, \* optimize: initial, the starting point
    optSoft,    \* _run_optimization: soft
    optBounds,  \* _run_optimization: bounds
    optHistory, \* _run_optimization: history.records
    optBest,    \* _run_optimization: best_values, best_obj, best_iter
    optFinal,   \* _run_optimization: result.x, the point minimize returned
    runResult,  \* the OptimizationResult the last run returned
    strictRun,  \* optimize: whether strict_result exists, and its success
    optResult,  \* what optimize returned, or the exception it raised
    fnCall,     \* a direct call of one function: its name and arguments
    fnResult    \* what that call returned or raised, <<>> while it is pending

computeVars == <<pc, args, passed, callData, pos, outcome, evalLog>>

optVars ==
    <<optPc, optValues, optInitial, optSoft, optBounds, optHistory, optBest,
      optFinal, runResult, strictRun, optResult>>

fnVars == <<fnCall, fnResult>>

vars == <<schema, engine, computeVars, optVars, fnVars>>

(***************************************************************************)
(* Characters                                                              *)
(***************************************************************************)
UpperLetters ==
    <<"A","B","C","D","E","F","G","H","I","J","K","L","M",
      "N","O","P","Q","R","S","T","U","V","W","X","Y","Z">>

LowerLetters ==
    <<"a","b","c","d","e","f","g","h","i","j","k","l","m",
      "n","o","p","q","r","s","t","u","v","w","x","y","z">>

Digits == <<"0","1","2","3","4","5","6","7","8","9">>

Range(s) == {s[i] : i \in DOMAIN s}

\* lower-case letter -> upper-case letter
ToUpper == [c \in Range(LowerLetters) |->
               UpperLetters[CHOOSE i \in DOMAIN LowerLetters : LowerLetters[i] = c]]

Alphabetic == Range(UpperLetters) \cup Range(LowerLetters)

Numeric == Range(Digits)

\* str.isalpha / str.isdigit on one character
isalpha(c) == c \in Alphabetic

isdigit(c) == c \in Numeric

\* str.upper on one character
upper(c) == IF c \in DOMAIN ToUpper THEN ToUpper[c] ELSE c

\* upper-case letter -> ord(char) - ord("A") + 1
LetterIndex == [c \in Range(UpperLetters) |->
                   CHOOSE i \in DOMAIN UpperLetters : UpperLetters[i] = c]

\* digit -> int(digit)
DigitValue == [c \in Range(Digits) |-> (CHOOSE i \in DOMAIN Digits : Digits[i] = c) - 1]

(***************************************************************************)
(* core/model.py: normalize_cell                                           *)
(***************************************************************************)
normalize_cell(cell) ==
    LET stripped == SelectSeq(cell, LAMBDA c : c /= "$")
    IN  [i \in DOMAIN stripped |-> upper(stripped[i])]

\* build_default_cell_values: the declared default of every input cell
build_default_cell_values(sch) ==
    [c \in {normalize_cell(sch.inputs[i].cell) : i \in DOMAIN sch.inputs} |->
        LET i == CHOOSE j \in DOMAIN sch.inputs :
                    /\ normalize_cell(sch.inputs[j].cell) = c
                    /\ \A k \in DOMAIN sch.inputs :
                          normalize_cell(sch.inputs[k].cell) = c => k <= j
        IN  sch.inputs[i].default]

(***************************************************************************)
(* core/evaluator.py: split_cell, letters_to_col, col_to_letters           *)
(***************************************************************************)
RECURSIVE letters_to_col(_)
letters_to_col(letters) ==
    IF letters = <<>> THEN 0
    ELSE letters_to_col(SubSeq(letters, 1, Len(letters) - 1)) * 26
         + LetterIndex[upper(letters[Len(letters)])]

\* col_to_letters dividing col, not col - 1, by 26
RECURSIVE col_to_letters_zero_based(_)
col_to_letters_zero_based(col) ==
    IF col > 0
    THEN col_to_letters_zero_based(col \div 26) \o <<UpperLetters[((col - 1) % 26) + 1]>>
    ELSE <<>>

RECURSIVE col_to_letters(_)
col_to_letters(col) ==
    IF col > 0
    THEN col_to_letters((col - 1) \div 26) \o <<UpperLetters[((col - 1) % 26) + 1]>>
    ELSE <<>>

\* int(numbers) for a non-empty string of digits
RECURSIVE ParseInt(_)
ParseInt(numbers) ==
    IF numbers = <<>> THEN 0
    ELSE ParseInt(SubSeq(numbers, 1, Len(numbers) - 1)) * 10
         + DigitValue[numbers[Len(numbers)]]

\* str(row) inside the f-string of range_ (row >= 0)
RECURSIVE FormatInt(_)
FormatInt(n) ==
    IF n < 10 THEN <<Digits[n + 1]>>
    ELSE FormatInt(n \div 10) \o <<Digits[(n % 10) + 1]>>

\* split_cell: ok = FALSE stands for the ValueError int("") raises
split_cell(cell) ==
    LET letters == SelectSeq(cell, isalpha)
        numbers == SelectSeq(cell, isdigit)
    IN  IF numbers = <<>>
        THEN [ok |-> FALSE, col |-> 0, row |-> 0]
        ELSE [ok |-> TRUE, col |-> letters_to_col(letters), row |-> ParseInt(numbers)]

Min(a, b) == IF a <= b THEN a ELSE b

Max(a, b) == IF a >= b THEN a ELSE b

(***************************************************************************)
(* Formulas.  A formula string is modelled by the sequence of its          *)
(* "+"-joined terms; a term is a single cell reference ("A1", "$A$1"), a   *)
(* SUM over a range reference ("SUM(A1:B2)"), a number, or the quotient    *)
(* "0/<cell>", which raises ZeroDivisionError when the cell holds 0.       *)
(***************************************************************************)
CellTerm(ref) == [kind |-> "cell", a |-> ref, b |-> ref, n |-> 0]

RangeTerm(start, end) == [kind |-> "range", a |-> start, b |-> end, n |-> 0]

NumTerm(n) == [kind |-> "num", a |-> <<>>, b |-> <<>>, n |-> n]

ZDivTerm(ref) == [kind |-> "zdiv", a |-> ref, b |-> ref, n |-> 0]

\* IF(condition; true_val; false_val), each argument a term that is not an IF
IfTerm(condition, true_val, false_val) ==
    [kind |-> "if", a |-> <<>>, b |-> <<>>, n |-> 0,
     args |-> <<condition, true_val, false_val>>]

(***************************************************************************)
(* core/formula_parser.py: parse_formula                                   *)
(***************************************************************************)
\* range_replacer: the addresses recorded for one range token
range_replacer_deps(start, end) == {normalize_cell(start), normalize_cell(end)}

\* cell_replacer: the address recorded for one single-cell token
cell_replacer_deps(ref) == {normalize_cell(ref)}

RECURSIVE TermDependencies(_)
TermDependencies(t) ==
    CASE t.kind = "range" -> range_replacer_deps(t.a, t.b)
      [] t.kind \in {"cell", "zdiv"} -> cell_replacer_deps(t.a)
      [] t.kind = "if" -> UNION {TermDependencies(t.args[i]) : i \in DOMAIN t.args}
      [] OTHER -> {}

\* the token as it stands in python_expr: range_("A1", "B2") / cell_("A1")
RECURSIVE TermExpr(_)
TermExpr(t) ==
    IF t.kind = "num" THEN t
    ELSE IF t.kind = "if" THEN [t EXCEPT !.args = [i \in DOMAIN t.args |-> TermExpr(t.args[i])]]
    ELSE [t EXCEPT !.a = normalize_cell(t.a), !.b = normalize_cell(t.b)]

parse_formula(formula) ==
    [python_expr  |-> [i \in DOMAIN formula |-> TermExpr(formula[i])],
     dependencies |-> UNION {TermDependencies(formula[i]) : i \in DOMAIN formula}]

extract_dependencies(formula) == parse_formula(formula).dependencies

(***************************************************************************)
(* core/formula_parser.py: the text steps of parse_formula, on a formula   *)
(* as the sequence of its characters                                       *)
(***************************************************************************)
\* formula.lstrip("=")
RECURSIVE lstrip_equals(_)
lstrip_equals(formula) ==
    IF formula /= <<>> /\ Head(formula) = "=" THEN lstrip_equals(Tail(formula)) ELSE formula

\* line 40: expr.replace("<>", "!="), occurrences taken from the left
RECURSIVE replace_not_equal(_)
replace_not_equal(expr) ==
    IF Len(expr) < 2 THEN expr
    ELSE IF expr[1] = "<" /\ expr[2] = ">"
    THEN <<"!", "=">> \o replace_not_equal(SubSeq(expr, 3, Len(expr)))
    ELSE <<expr[1]>> \o replace_not_equal(Tail(expr))

\* the pattern (?<![<>=])=(?![<>=]) matches at position i of expr
SingleEqualsAt(expr, i) ==
    /\ expr[i] = "="
    /\ (i > 1 => expr[i - 1] \notin {"<", ">", "="})
    /\ (i < Len(expr) => expr[i + 1] \notin {"<", ">", "="})

\* line 42: re.sub of the pattern by "==", from position i on
RECURSIVE sub_single_equals(_, _)
sub_single_equals(expr, i) ==
    IF i > Len(expr) THEN <<>>
    ELSE (IF SingleEqualsAt(expr, i) THEN <<"=", "=">> ELSE <<expr[i]>>)
         \o sub_single_equals(expr, i + 1)

normalize_comparisons(expr) == sub_single_equals(replace_not_equal(expr), 1)

(***************************************************************************)
(* core/evaluator.py: build_eval_context (cell_, range_), evaluate_formula *)
(* An evaluation yields [ok, val, reads]: ok = FALSE stands for the        *)
(* FormulaError raised; reads are the addresses cell_ was called with.     *)
(***************************************************************************)
Raised(reads) == [ok |-> FALSE, val |-> 0, reads |-> reads]

Value(v, reads) == [ok |-> TRUE, val |-> v, reads |-> reads]

\* cell_ falling back on the schema default of an absent cell
cell_with_default(values, cell) ==
    LET defaults == build_default_cell_values(schema)
    IN  IF cell \in DOMAIN values THEN [ok |-> TRUE, val |-> values[cell], reads |-> {cell}]
        ELSE IF cell \in DOMAIN defaults
        THEN [ok |-> TRUE, val |-> defaults[cell], reads |-> {cell}]
        ELSE [ok |-> FALSE, val |-> 0, reads |-> {cell}]

\* cell_: the value of one cell of the snapshot, FormulaError when absent
cell_(values, cell) ==
    IF cell \notin DOMAIN values THEN Raised({cell}) ELSE Value(values[cell], {cell})

\* the two loops of range_ nested the other way round: column by column
Rectangle_column_major(c0, c1, r0, r1) ==
    [k \in 1..((r1 - r0 + 1) * (c1 - c0 + 1)) |->
        col_to_letters(c0 + ((k - 1) \div (r1 - r0 + 1)))
            \o FormatInt(r0 + ((k - 1) % (r1 - r0 + 1)))]

\* the addresses of the rectangle, row by row: the two nested loops of range_
Rectangle(c0, c1, r0, r1) ==
    [k \in 1..((r1 - r0 + 1) * (c1 - c0 + 1)) |->
        col_to_letters(c0 + ((k - 1) % (c1 - c0 + 1)))
            \o FormatInt(r0 + ((k - 1) \div (c1 - c0 + 1)))]

\* lines 38-44: the corners s and e put in order
Corners(s, e) ==
    Rectangle(Min(s.col, e.col), Max(s.col, e.col), Min(s.row, e.row), Max(s.row, e.row))

\* the addresses range_ visits, in the order of its two nested loops
range_cells(start, end) == Corners(split_cell(start), split_cell(end))

\* the list range_ builds: cell_ is called cell by cell, the first absent one raises
RECURSIVE RangeValues(_, _, _, _, _)
\* cell_ of the cell at position k has evaluated to r
RangeValue(values, cells, k, acc, reads, r) ==
    IF ~r.ok THEN Raised(reads \cup r.reads)
    ELSE RangeValues(values, cells, k + 1, Append(acc, r.val), reads \cup r.reads)

RangeValues(values, cells, k, acc, reads) ==
    IF k > Len(cells) THEN Value(acc, reads)
    ELSE RangeValue(values, cells, k, acc, reads, cell_(values, cells[k]))

\* range_: the values of the cells of the rectangle, as a list
range_(values, start, end) ==
    IF ~split_cell(start).ok \/ ~split_cell(end).ok THEN Raised({})
    ELSE RangeValues(values, range_cells(start, end), 1, <<>>, {})

\* "sum" of the evaluation context: the builtin sum
RECURSIVE sum(_)
sum(list) == IF list = <<>> THEN 0 ELSE Head(list) + sum(Tail(list))

\* SUM(...) of the formula: sum applied to what range_ returned
SumOf(r) == IF ~r.ok THEN r ELSE Value(sum(r.val), r.reads)

\* if_func(condition, true_val, false_val)
if_func(condition, true_val, false_val) == IF condition /= 0 THEN true_val ELSE false_val

\* a call of if_func that evaluates only the argument it selects
if_func_call_lazy(c, a, b) ==
    IF ~c.ok THEN Raised(c.reads)
    ELSE IF c.val /= 0
    THEN (IF ~a.ok THEN Raised(c.reads \cup a.reads) ELSE Value(a.val, c.reads \cup a.reads))
    ELSE (IF ~b.ok THEN Raised(c.reads \cup b.reads) ELSE Value(b.val, c.reads \cup b.reads))

\* the call if_func(c, a, b) inside eval: the three arguments are evaluated
\* from the left, the first exception ends the call, then if_func selects
if_func_call(c, a, b) ==
    IF ~c.ok THEN Raised(c.reads)
    ELSE IF ~a.ok THEN Raised(c.reads \cup a.reads)
    ELSE IF ~b.ok THEN Raised(c.reads \cup a.reads \cup b.reads)
    ELSE Value(if_func(c.val, a.val, b.val), c.reads \cup a.reads \cup b.reads)

RECURSIVE EvalTerm(_, _)
EvalTerm(values, t) ==
    CASE t.kind = "cell"  -> cell_(values, t.a)
      [] t.kind = "if"    -> if_func_call(EvalTerm(values, t.args[1]),
                                          EvalTerm(values, t.args[2]),
                                          EvalTerm(values, t.args[3]))
      [] t.kind = "range" -> SumOf(range_(values, t.a, t.b))
      [] t.kind = "zdiv"  ->
            LET r == cell_(values, t.a)
            IN  IF ~r.ok THEN r
                ELSE IF r.val = 0 THEN Raised(r.reads)
                ELSE Value(0, r.reads)
      [] OTHER -> Value(t.n, {})

\* eval(parsed.python_expr): operands left to right, the first exception ends it
RECURSIVE EvalExpr(_, _, _, _, _)
\* the operand at position k has evaluated to r
EvalOperand(values, expr, k, acc, reads, r) ==
    IF ~r.ok THEN Raised(reads \cup r.reads)
    ELSE EvalExpr(values, expr, k + 1, acc + r.val, reads \cup r.reads)

EvalExpr(values, expr, k, acc, reads) ==
    IF k > Len(expr) THEN Value(acc, reads)
    ELSE EvalOperand(values, expr, k, acc, reads, EvalTerm(values, expr[k]))

evaluate_formula(formula, values) ==
    EvalExpr(values, parse_formula(formula).python_expr, 1, 0, {})

(***************************************************************************)
(* core/dependency_graph.py.  A dict is modelled by the sequence of its    *)
(* keys in insertion order and a function on them.                         *)
(***************************************************************************)
build_dependency_graph(formulas) ==
    [keys |-> [i \in DOMAIN formulas |-> normalize_cell(formulas[i].cell)],
     deps |-> [c \in {normalize_cell(formulas[i].cell) : i \in DOMAIN formulas} |->
                 LET i == CHOOSE j \in DOMAIN formulas : normalize_cell(formulas[j].cell) = c
                 IN  {normalize_cell(d) : d \in extract_dependencies(formulas[i].formula)}]]

\* the in-degree counted over all dependencies, input cells included
InitialIndegree_all(graph) ==
    [node \in Range(graph.keys) |-> Cardinality(graph.deps[node])]

\* lines 18-23: the number of dependencies of a node that are graph nodes
InitialIndegree(graph) ==
    [node \in Range(graph.keys) |->
        Cardinality({dep \in graph.deps[node] : dep \in Range(graph.keys)})]

\* lines 29-33: the for loop over graph.items() after node was popped
RECURSIVE Release(_, _, _, _, _)
Release(graph, node, k, indegree, queue) ==
    IF k > Len(graph.keys) THEN [indegree |-> indegree, queue |-> queue]
    ELSE LET target == graph.keys[k]
         IN  IF node \in graph.deps[target]
             THEN LET deg == indegree[target] - 1
                  IN  Release(graph, node, k + 1,
                              [indegree EXCEPT ![target] = deg],
                              IF deg = 0 THEN Append(queue, target) ELSE queue)
             ELSE Release(graph, node, k + 1, indegree, queue)

\* lines 26-33: the while loop
RECURSIVE Drain(_, _, _, _)
Drain(graph, indegree, queue, ordered) ==
    IF queue = <<>> THEN ordered
    ELSE LET node == Head(queue)
             rel  == Release(graph, node, 1, indegree, Tail(queue))
         IN  Drain(graph, rel.indegree, rel.queue, Append(ordered, node))

\* topological_sort without the length check of lines 34-36
topological_sort_unchecked(graph) ==
    LET indegree == InitialIndegree(graph)
        queue    == SelectSeq(graph.keys, LAMBDA node : indegree[node] = 0)
    IN  [ok |-> TRUE, ordered |-> Drain(graph, indegree, queue, <<>>), missing |-> {}]

\* topological_sort: ok = FALSE stands for the ValueError, missing its cell set
topological_sort(graph) ==
    LET indegree == InitialIndegree(graph)
        queue    == SelectSeq(graph.keys, LAMBDA node : indegree[node] = 0)
        ordered  == Drain(graph, indegree, queue, <<>>)
    IN  IF Len(ordered) /= Len(graph.keys)
        THEN [ok |-> FALSE, ordered |-> <<>>, missing |-> Range(graph.keys) \ Range(ordered)]
        ELSE [ok |-> TRUE, ordered |-> ordered, missing |-> {}]

(***************************************************************************)
(* core/model.py and core/compute.py: the schema and the engine            *)
(***************************************************************************)
\* the dict of formula cells by normalized address, in schema order
schema_formulas_by_cell(sch) ==
    [i \in DOMAIN sch.formulas |->
        [cell |-> normalize_cell(sch.formulas[i].cell), formula |-> sch.formulas[i].formula]]

\* self.formulas[cell].formula
FormulaOf(formulas, cell) ==
    formulas[CHOOSE i \in DOMAIN formulas : formulas[i].cell = cell].formula

\* ComputeEngine.__init__: state "failed" stands for the ValueError leaving it
ComputeEngine(sch) ==
    LET formulas == schema_formulas_by_cell(sch)
        graph    == build_dependency_graph(formulas)
        sorted   == topological_sort(graph)
    IN  [state    |-> IF sorted.ok THEN "ready" ELSE "failed",
         formulas |-> formulas,
         graph    |-> graph,
         order    |-> sorted.ordered,
         missing  |-> sorted.missing]

NoEngine ==
    [state |-> "new", formulas |-> <<>>, graph |-> [keys |-> <<>>, deps |-> <<>>],
     order |-> <<>>, missing |-> {}]

KEY_OUTPUTS ==
    << <<"J","1","2","2">>, <<"J","1","3","2">>, <<"L","1","4","1">>,
       <<"J","1","6","9">>, <<"T","1","6","8">>, <<"T","1","7","8">>,
       <<"J","2","0","4">> >>

TableColumns == <<"N", "O", "P", "Q">>

TableFirstRow == 106

TableLastRow == 116

\* dict.get: some = FALSE stands for None
NoneValue == [some |-> FALSE, v |-> 0]

Get(data, cell) ==
    IF cell \in DOMAIN data THEN [some |-> TRUE, v |-> data[cell]] ELSE NoneValue

_build_table(data) ==
    [r \in 1..(TableLastRow - TableFirstRow + 1) |->
        [c \in DOMAIN TableColumns |->
            Get(data, <<TableColumns[c]>> \o FormatInt(TableFirstRow + r - 1))]]

ComputeResult(data) ==
    [values      |-> data,
     key_outputs |-> [i \in DOMAIN KEY_OUTPUTS |-> Get(data, KEY_OUTPUTS[i])],
     table_rows  |-> _build_table(data)]

\* line 38: the working copy, keys normalized
WorkingCopy(values) ==
    LET key == [k \in DOMAIN values |-> normalize_cell(k)] @@ <<>>
    IN  [c \in {key[k] : k \in DOMAIN values} |->
            values[CHOOSE k \in DOMAIN values : key[k] = c]] @@ <<>>

\* a working mapping kept on the engine and shared by the calls in progress
Snapshot_shared(own, others) ==
    [c \in DOMAIN own \cup UNION {DOMAIN o : o \in others} |->
        IF c \in DOMAIN own THEN own[c]
        ELSE (CHOOSE o \in others : c \in DOMAIN o)[c]]

\* the snapshot one evaluation of a call reads: the call's own working copy
Snapshot(own, others) == own

\* line 42: data[cell] = ...
Store(data, cell, v) == (cell :> v) @@ data

\* An outcome of compute: a ComputeResult returned, or the FormulaError raised
Returned(data) == [kind |-> "returned", cell |-> <<>>, result |-> <<ComputeResult(data)>>]

\* the evaluator's error passed on without the cell's address
RaisedAt_unnamed(cell) == [kind |-> "raised", cell |-> <<>>, result |-> <<>>]

RaisedAt(cell) == [kind |-> "raised", cell |-> cell, result |-> <<>>]

NoOutcome == [kind |-> "none", cell |-> <<>>, result |-> <<>>]

\* compute run on its own: lines 39-47 from position k of the order
RECURSIVE ComputeFrom(_, _, _)
\* lines 41-44: the formula of eng.order[k] has evaluated to r
ComputeCell(eng, data, k, r) ==
    IF ~r.ok THEN RaisedAt(eng.order[k])
    ELSE ComputeFrom(eng, Store(data, eng.order[k], r.val), k + 1)

ComputeFrom(eng, data, k) ==
    IF k > Len(eng.order) THEN Returned(data)
    ELSE ComputeCell(eng, data, k,
                     evaluate_formula(FormulaOf(eng.formulas, eng.order[k]), data))

compute(eng, values) == ComputeFrom(eng, WorkingCopy(values), 1)

(***************************************************************************)
(* solver/optimizer.py.  An operation that may raise yields a record with  *)
(* ok = FALSE and the exception's name in err.  A violation (a float       *)
(* quotient) is the exact fraction num/den with den > 0.                   *)
(***************************************************************************)
J204 == <<"J","2","0","4">>

J76 == <<"J","7","6">>

J77 == <<"J","7","7">>

\* eps = 1e-6 as 1/EpsInverse
EpsInverse == 1000000

\* the strict tolerance 0.0001 as 1/StrictTolInverse
StrictTolInverse == 10000

\* the soft tolerance 0.05 as 1/SoftTolInverse
SoftTolInverse == 20

Fail(err) == [ok |-> FALSE, err |-> err, val |-> 0]

Ok(val) == [ok |-> TRUE, err |-> "", val |-> val]

Abs(n) == IF n < 0 THEN -n ELSE n

\* n / max(absden, eps) for integers n and absden >= 0
Quotient(n, absden) ==
    IF absden = 0 THEN [num |-> n * EpsInverse, den |-> 1] ELSE [num |-> n, den |-> absden]

Zero == [num |-> 0, den |-> 1]

\* a <= b for two fractions
FracLeq(a, b) == a.num * b.den <= b.num * a.den

\* violation <= 1/inverse
WithinInverse(violation, inverse) == violation.num <= violation.den \div inverse

\* line 62 and lines 153-156: mv <= tol, tol = 0.05 if soft else 0.0001
WithinTolerance(violation, soft) ==
    WithinInverse(violation, IF soft THEN SoftTolInverse ELSE StrictTolInverse)

\* max_violation: max(violations.values(), default=0.0)
max_violation(violations) ==
    IF violations = <<>> THEN Zero
    ELSE violations[CHOOSE i \in DOMAIN violations :
                        \A j \in DOMAIN violations : FracLeq(violations[j], violations[i])]

\* float(expr) succeeds: the expression is written with digits only
IsNumber(expr) == expr /= <<>> /\ \A i \in DOMAIN expr : isdigit(expr[i])

NoComputed == [some |-> FALSE, values |-> <<>>]

SomeComputed(values) == [some |-> TRUE, values |-> values]

\* lines 246-250: the key is looked up in the defaults
ResolveDefault(key, defaults) ==
    IF key \in DOMAIN defaults THEN Ok(defaults[key]) ELSE Fail("KeyError")

\* the defaults consulted before the computed mapping
ResolveComputed_defaults_first(sch, key, run) ==
    IF run.kind = "raised" THEN Fail("FormulaError")
    ELSE IF key \in DOMAIN build_default_cell_values(sch)
    THEN Ok(build_default_cell_values(sch)[key])
    ELSE IF key \in DOMAIN run.values THEN Ok(run.values[key])
    ELSE Fail("KeyError")

\* lines 243-250: run is the outcome of compute, or the computed mapping passed in
ResolveComputed(sch, key, run) ==
    IF run.kind = "raised" THEN Fail("FormulaError")
    ELSE IF key \in DOMAIN run.values THEN Ok(run.values[key])
    ELSE ResolveDefault(key, build_default_cell_values(sch))

\* the values of an outcome of compute
ComputedValues(run) ==
    IF run.kind = "raised" THEN [kind |-> "raised", values |-> <<>>]
    ELSE [kind |-> "returned", values |-> run.result[1].values]

\* lines 236-250: the key is looked up in values, computed, the defaults
ResolveKey(eng, sch, key, values, computed) ==
    IF key \in DOMAIN values THEN Ok(values[key])
    ELSE ResolveComputed(sch, key,
                         IF computed.some
                         THEN [kind |-> "returned", values |-> computed.values]
                         ELSE ComputedValues(compute(eng, values)))

\* _resolve_value(expr, values, computed)
_resolve_value(eng, sch, expr, values, computed) ==
    IF IsNumber(expr) THEN Ok(ParseInt(expr))
    ELSE ResolveKey(eng, sch, normalize_cell(expr), values, computed)

\* the violation without max(0.0, ...)
Violation_signed(type, lhs_val, rhs_val) ==
    CASE type = "le" -> Quotient(lhs_val - rhs_val, Abs(rhs_val))
      [] type = "ge" -> Quotient(rhs_val - lhs_val, Abs(lhs_val))
      [] OTHER       -> Quotient(Abs(lhs_val - rhs_val), Abs(rhs_val))

\* lines 261-266: the relative violation of one constraint
Violation(type, lhs_val, rhs_val) ==
    CASE type = "le" -> Quotient(Max(0, lhs_val - rhs_val), Abs(rhs_val))
      [] type = "ge" -> Quotient(Max(0, rhs_val - lhs_val), Abs(lhs_val))
      [] OTHER       -> Quotient(Abs(lhs_val - rhs_val), Abs(rhs_val))

\* the tiers with exclusive thresholds
StatusOf_strict(violation) ==
    IF violation.num * StrictTolInverse < violation.den THEN "green"
    ELSE IF violation.num * SoftTolInverse < violation.den THEN "yellow"
    ELSE "red"

\* line 268: the tier of a violation
StatusOf(violation) ==
    IF WithinInverse(violation, StrictTolInverse) THEN "green"
    ELSE IF WithinInverse(violation, SoftTolInverse) THEN "yellow"
    ELSE "red"

\* line 260: name = f"C{idx}: {lhs} {type} {rhs}"
ConstraintName(idx, c) == [idx |-> idx, lhs |-> c.lhs, type |-> c.type, rhs |-> c.rhs]

\* line 269: ConstraintStatus(name, violation, status)
ConstraintStatus(idx, c, violation) ==
    [name |-> ConstraintName(idx, c), violation |-> violation, status |-> StatusOf(violation)]

\* the statuses list holding only the constraints that are not satisfied
ViolationsOf_unsatisfied(cs, resolved) ==
    IF \E i \in DOMAIN cs : ~resolved[i].lhs.ok \/ ~resolved[i].rhs.ok THEN Fail("KeyError")
    ELSE Ok([violations |->
                [i \in DOMAIN cs |->
                    Violation(cs[i].type, resolved[i].lhs.val, resolved[i].rhs.val)],
             statuses |->
                SelectSeq([i \in DOMAIN cs |->
                              ConstraintStatus(i, cs[i],
                                  Violation(cs[i].type, resolved[i].lhs.val,
                                            resolved[i].rhs.val))],
                          LAMBDA st : st.status /= "green")])

\* lines 260-269: the violations dict (by declaration index) and the statuses,
\* resolved[i] holding the two sides of constraint i
ViolationsOf(cs, resolved) ==
    IF \E i \in DOMAIN cs : ~resolved[i].lhs.ok \/ ~resolved[i].rhs.ok THEN Fail("KeyError")
    ELSE Ok([violations |->
                [i \in DOMAIN cs |->
                    Violation(cs[i].type, resolved[i].lhs.val, resolved[i].rhs.val)],
             statuses |->
                [i \in DOMAIN cs |->
                    ConstraintStatus(i, cs[i],
                        Violation(cs[i].type, resolved[i].lhs.val, resolved[i].rhs.val))]])

\* lines 257-259: the two sides of every constraint, computed being given
ResolveSides(eng, sch, values, computed) ==
    [i \in DOMAIN sch.solver.constraints |->
        [lhs |-> _resolve_value(eng, sch, sch.solver.constraints[i].lhs, values, computed),
         rhs |-> _resolve_value(eng, sch, sch.solver.constraints[i].rhs, values, computed)]]
    @@ <<>>

\* lines 255-270, run being the outcome of compute(values)
ViolationsAfter(eng, sch, values, run) ==
    IF run.kind = "raised" THEN Fail("FormulaError")
    ELSE ViolationsOf(sch.solver.constraints,
                      ResolveSides(eng, sch, values, SomeComputed(run.values)))

\* _constraint_violations(values): the violations and the statuses, or the
\* exception of compute or of _resolve_value
_constraint_violations(eng, sch, values) ==
    ViolationsAfter(eng, sch, values, ComputedValues(compute(eng, values)))

\* a copy that also takes the defaults of the cells values does not hold
_update_values_filled(sch, values, x) ==
    LET vs == sch.solver.variables
    IN  [k \in Range(vs) |->
            x[CHOOSE i \in DOMAIN vs :
                 vs[i] = k /\ \A j \in DOMAIN vs : vs[j] = k => j <= i]] @@ values
            @@ build_default_cell_values(sch)

\* _update_values(values, x): a copy with the decision variables set to x
_update_values(sch, values, x) ==
    LET vs == sch.solver.variables
    IN  [k \in Range(vs) |->
            x[CHOOSE i \in DOMAIN vs :
                 vs[i] = k /\ \A j \in DOMAIN vs : vs[j] = k => j <= i]] @@ values

\* func returning left_val - right_val for le as well
FuncValue_le_as_ge(ctype, left_val, right_val) ==
    IF ~left_val.ok THEN Fail(left_val.err)
    ELSE IF ~right_val.ok THEN Fail(right_val.err)
    ELSE Ok(left_val.val - right_val.val)

\* lines 215-221 of func: the value returned for the two resolved sides
FuncValue(ctype, left_val, right_val) ==
    IF ~left_val.ok THEN Fail(left_val.err)
    ELSE IF ~right_val.ok THEN Fail(right_val.err)
    ELSE IF ctype = "le" THEN Ok(right_val.val - left_val.val)
    ELSE Ok(left_val.val - right_val.val)

\* lines 215-216, current being _update_values(values, x)
FuncAt(eng, sch, c, current) ==
    FuncValue(c.type, _resolve_value(eng, sch, c.lhs, current, NoComputed),
              _resolve_value(eng, sch, c.rhs, current, NoComputed))

\* func(x) of the constraint c, lines 213-221
func(eng, sch, values, c, x) == FuncAt(eng, sch, c, _update_values(sch, values, x))

\* _build_constraints(values, soft): the dicts handed to minimize, fun standing
\* for the closure over the constraint
_build_constraints(sch, soft) ==
    IF soft THEN <<>>
    ELSE [i \in DOMAIN sch.solver.constraints |->
             [type |-> IF sch.solver.constraints[i].type = "eq" THEN "eq" ELSE "ineq",
              fun  |-> sch.solver.constraints[i]]]

\* float(result.key_outputs["J204"]) of a ComputeResult: TypeError on None
ObjectiveOf(result) ==
    LET i == CHOOSE j \in DOMAIN KEY_OUTPUTS : KEY_OUTPUTS[j] = J204
    IN  IF result.key_outputs[i].some THEN Ok(result.key_outputs[i].v) ELSE Fail("TypeError")

\* _build_bounds.bounds_map (lines 190-195): variable -> its two bound cells
bounds_map ==
    (<<"C","7">> :> << <<"E","1","9","5">>, <<"E","1","9","7">> >>) @@
    (<<"J","7">> :> << <<"J","1","9","1">>, <<"J","1","9","3">> >>) @@
    (<<"C","9">> :> << <<"E","1","9","1">>, <<"E","1","9","3">> >>) @@
    (<<"J","9","4">> :> << <<"J","1","9","5">>, <<"J","1","9","7">> >>)

\* _build_bounds.get (lines 179-188)
BoundValue(sch, cell, values, computed) ==
    IF normalize_cell(cell) \in DOMAIN values THEN Ok(values[normalize_cell(cell)])
    ELSE IF normalize_cell(cell) \in DOMAIN computed THEN Ok(computed[normalize_cell(cell)])
    ELSE ResolveDefault(normalize_cell(cell), build_default_cell_values(sch))

\* the pairs as the cells give them, not swapped
BoundsOf_unswapped(vs, got) ==
    IF \E v \in DOMAIN got : ~got[v][1].ok \/ ~got[v][2].ok THEN Fail("KeyError")
    ELSE IF \E i \in DOMAIN vs : vs[i] \notin DOMAIN got THEN Fail("KeyError")
    ELSE Ok([i \in DOMAIN vs |-> <<got[vs[i]][1].val, got[vs[i]][2].val>>])

\* lines 197-203: one (lo, hi) pair per decision variable, got being bounds_map
\* with its cells read
BoundsOf(vs, got) ==
    IF \E v \in DOMAIN got : ~got[v][1].ok \/ ~got[v][2].ok THEN Fail("KeyError")
    ELSE IF \E i \in DOMAIN vs : vs[i] \notin DOMAIN got THEN Fail("KeyError")
    ELSE Ok([i \in DOMAIN vs |->
                IF got[vs[i]][1].val > got[vs[i]][2].val
                THEN <<got[vs[i]][2].val, got[vs[i]][1].val>>
                ELSE <<got[vs[i]][1].val, got[vs[i]][2].val>>])

\* lines 177-203, run being the outcome of compute(values)
BoundsAfter(sch, values, run) ==
    IF run.kind = "raised" THEN Fail("FormulaError")
    ELSE BoundsOf(sch.solver.variables,
                  [v \in DOMAIN bounds_map |->
                      << BoundValue(sch, bounds_map[v][1], values, run.values),
                         BoundValue(sch, bounds_map[v][2], values, run.values) >>] @@ <<>>)

\* _build_bounds(values)
_build_bounds(eng, sch, values) ==
    BoundsAfter(sch, values, ComputedValues(compute(eng, values)))

\* a + b for two fractions
FracAdd(a, b) == [num |-> a.num * b.den + b.num * a.den, den |-> a.den * b.den]

\* line 79: sum(1000.0 * v**2 for v in penalties.values()), from position k on
RECURSIVE Penalty(_, _)
Penalty(penalties, k) ==
    IF k > Len(penalties) THEN Zero
    ELSE FracAdd([num |-> 1000 * penalties[k].num * penalties[k].num,
                  den |-> penalties[k].den * penalties[k].den],
                 Penalty(penalties, k + 1))

\* lines 73-80: compute(current) gave run, _constraint_violations(current) gave
\* cv when soft
ObjectiveAfter(soft, run, cv) ==
    IF run.kind = "raised" THEN Fail("FormulaError")
    ELSE IF ~ObjectiveOf(run.result[1]).ok THEN Fail("TypeError")
    ELSE IF ~soft THEN Ok([num |-> ObjectiveOf(run.result[1]).val, den |-> 1])
    ELSE IF ~cv.ok THEN Fail(cv.err)
    ELSE Ok(FracAdd([num |-> ObjectiveOf(run.result[1]).val, den |-> 1],
                    Penalty(cv.val.violations, 1)))

\* lines 72-80, current being _update_values(base_values, x)
ObjectiveAt(eng, sch, soft, current) ==
    ObjectiveAfter(soft, compute(eng, current),
                   IF soft THEN _constraint_violations(eng, sch, current)
                   ELSE Ok([violations |-> <<>>, statuses |-> <<>>]))

\* objective(x), lines 71-80: the quantity minimize is given to minimize
objective(eng, sch, base_values, soft, x) ==
    ObjectiveAt(eng, sch, soft, _update_values(sch, base_values, x))

\* best_values is None, best_obj = inf
NoBest == [set |-> FALSE, obj |-> 0, values |-> <<>>, iter |-> 0]

\* lines 93-104: the IterationRecord of one callback
IterationRecord(sch, iteration, current, result, violations) ==
    IF ~ObjectiveOf(result).ok THEN Fail("TypeError")
    ELSE IF \E i \in DOMAIN KEY_OUTPUTS : ~result.key_outputs[i].some THEN Fail("TypeError")
    ELSE IF J76 \notin DOMAIN result.values \/ J77 \notin DOMAIN result.values
    THEN Fail("KeyError")
    ELSE Ok([iteration  |-> iteration,
             variables  |-> [v \in Range(sch.solver.variables) |-> current[v]],
             objective  |-> ObjectiveOf(result).val,
             outputs    |-> [key_outputs |-> [i \in DOMAIN KEY_OUTPUTS |->
                                                 result.key_outputs[i].v],
                             J76 |-> result.values[J76],
                             J77 |-> result.values[J77]],
             violations |-> violations])

\* the latest feasible iterate tracked, whatever its objective
TrackBest_latest(best, soft, mv, j204, current, iteration) ==
    IF WithinTolerance(mv, soft)
    THEN [set |-> TRUE, obj |-> j204, values |-> current, iter |-> iteration]
    ELSE best

\* lines 107-112: the best feasible iterate after one more callback
TrackBest(best, soft, mv, j204, current, iteration) ==
    IF WithinTolerance(mv, soft) /\ (~best.set \/ j204 < best.obj)
    THEN [set |-> TRUE, obj |-> j204, values |-> current, iter |-> iteration]
    ELSE best

\* the record written over the last one of the history
Recorded_overwriting(soft, history, best, current, mv, rec) ==
    IF ~rec.ok THEN Fail(rec.err)
    ELSE Ok([history |-> IF history = <<>> THEN <<rec.val>>
                         ELSE [history EXCEPT ![Len(history)] = rec.val],
             best    |-> TrackBest(best, soft, mv, rec.val.objective, current,
                                   Len(history) + 1)])

\* lines 92-112: the record rec is added and the best iterate updated
Recorded(soft, history, best, current, mv, rec) ==
    IF ~rec.ok THEN Fail(rec.err)
    ELSE Ok([history |-> Append(history, rec.val),
             best    |-> TrackBest(best, soft, mv, rec.val.objective, current,
                                   Len(history) + 1)])

\* lines 86-112: compute(current) gave run, _constraint_violations(current) gave cv
CallbackAfter(sch, soft, history, best, current, run, cv) ==
    IF run.kind = "raised" THEN Fail("FormulaError")
    ELSE IF ~cv.ok THEN Fail(cv.err)
    ELSE Recorded(soft, history, best, current, max_violation(cv.val.violations),
                  IterationRecord(sch, Len(history) + 1, current, run.result[1],
                                  cv.val.violations))

\* lines 85-112, current being _update_values(base_values, x)
CallbackAt(eng, sch, soft, history, best, current) ==
    CallbackAfter(sch, soft, history, best, current,
                  compute(eng, current), _constraint_violations(eng, sch, current))

\* callback(x), lines 82-112: the history and the best iterate after it
callback(eng, sch, base_values, soft, history, best, x) ==
    CallbackAt(eng, sch, soft, history, best, _update_values(sch, base_values, x))

\* the best feasible iterate returned with the final point's chosen_mv
ChoosePoint_final_mv(final, best, bestChecked, soft) ==
    IF best.set /\ WithinTolerance(bestChecked.mv, soft) /\ best.obj < final.obj
    THEN [values |-> best.values, statuses |-> bestChecked.statuses, obj |-> best.obj,
          mv |-> final.mv, note |-> best.iter]
    ELSE final

\* lines 129-148: the point returned, the final one or the best feasible iterate
ChoosePoint(final, best, bestChecked, soft) ==
    IF best.set /\ WithinTolerance(bestChecked.mv, soft) /\ best.obj < final.obj
    THEN [values |-> best.values, statuses |-> bestChecked.statuses, obj |-> best.obj,
          mv |-> bestChecked.mv, note |-> best.iter]
    ELSE final

\* the result built with a new OptimizationHistory in place of the run's
OptimizationResult_new_history(chosen, soft, history, message) ==
    [success     |-> WithinTolerance(chosen.mv, soft),
     message     |-> [text |-> message, best_iter |-> chosen.note],
     values      |-> chosen.values,
     objective   |-> chosen.obj,
     constraints |-> chosen.statuses,
     history     |-> <<>>,
     stage       |-> IF soft THEN "soft" ELSE "strict"]

\* lines 150-168: the OptimizationResult of the chosen point
OptimizationResult(chosen, soft, history, message) ==
    [success     |-> WithinTolerance(chosen.mv, soft),
     message     |-> [text |-> message, best_iter |-> chosen.note],
     values      |-> chosen.values,
     objective   |-> chosen.obj,
     constraints |-> chosen.statuses,
     history     |-> history,
     stage       |-> IF soft THEN "soft" ELSE "strict"]

\* a run that raises when the point it chose is outside the tolerance
FinalStage_raising(soft, history, best, message, final_values, fv, final_obj, bv) ==
    IF ~fv.ok THEN Fail(fv.err)
    ELSE IF ~final_obj.ok THEN Fail("TypeError")
    ELSE IF ~bv.ok THEN Fail(bv.err)
    ELSE IF ~best.set /\ ~WithinTolerance(max_violation(fv.val.violations), soft)
    THEN Fail("ValueError")
    ELSE Ok(OptimizationResult(
                ChoosePoint([values |-> final_values, statuses |-> fv.val.statuses,
                             obj |-> final_obj.val,
                             mv |-> max_violation(fv.val.violations), note |-> 0],
                            best,
                            [mv |-> max_violation(bv.val.violations),
                             statuses |-> bv.val.statuses],
                            soft),
                soft, history, message))

\* lines 124-168: fv, final_obj and bv are the outcomes of the three evaluations
FinalStage(soft, history, best, message, final_values, fv, final_obj, bv) ==
    IF ~fv.ok THEN Fail(fv.err)
    ELSE IF ~final_obj.ok THEN Fail("TypeError")
    ELSE IF ~bv.ok THEN Fail(bv.err)
    ELSE Ok(OptimizationResult(
                ChoosePoint([values |-> final_values, statuses |-> fv.val.statuses,
                             obj |-> final_obj.val,
                             mv |-> max_violation(fv.val.violations), note |-> 0],
                            best,
                            [mv |-> max_violation(bv.val.violations),
                             statuses |-> bv.val.statuses],
                            soft),
                soft, history, message))

\* line 127: float(compute(final_values).key_outputs["J204"])
FinalObjective(run) ==
    IF run.kind = "raised" THEN Fail("FormulaError") ELSE ObjectiveOf(run.result[1])

\* lines 124-168, final_values being _update_values(base_values, result.x)
RunResultAt(eng, sch, soft, history, best, message, final_values) ==
    FinalStage(soft, history, best, message, final_values,
               _constraint_violations(eng, sch, final_values),
               FinalObjective(compute(eng, final_values)),
               IF best.set THEN _constraint_violations(eng, sch, best.values)
               ELSE Ok([violations |-> <<>>, statuses |-> <<>>]))

\* lines 123-168 of _run_optimization, after minimize returned x and message
RunResult(eng, sch, base_values, soft, history, best, x, message) ==
    RunResultAt(eng, sch, soft, history, best, message,
                _update_values(sch, base_values, x))


(***************************************************************************)
(* The schemas and input mappings the engine is exercised with             *)
(***************************************************************************)
\* the largest number of formula cells of a schema
MaxFormulas == 2

A1 == <<"A","1">>

B1 == <<"B","1">>

A2 == <<"A","2">>

B2 == <<"B","2">>

A3 == <<"A","3">>

\* formula cell addresses as a schema file may spell them
FormulaAddresses == {A2, <<"$","B","$","2">>, <<"a","3">>}

\* =A1+1, =$A$2+B1, =B2, =0/B1, =SUM($B$2:A1), =A3+A1
FormulaStrings ==
    { <<CellTerm(A1), NumTerm(1)>>,
      <<CellTerm(<<"$","A","$","2">>), CellTerm(B1)>>,
      <<CellTerm(B2)>>,
      <<ZDivTerm(B1)>>,
      <<RangeTerm(<<"$","B","$","2">>, A1)>>,
      <<CellTerm(A3), CellTerm(A1)>> }

FormulaCells == [cell : FormulaAddresses, formula : FormulaStrings]

\* a schema whose solver block declares nothing
NoSolver == [objective |-> J204, variables |-> <<>>, constraints |-> <<>>]

InputCells == << [cell |-> A1, default |-> 1], [cell |-> B1, default |-> 2] >>

\* every address of inputs and formulas is unique after normalization
Schemas ==
    { [inputs |-> InputCells, formulas |-> fs, solver |-> NoSolver] :
        fs \in { f \in UNION {[1..n -> FormulaCells] : n \in 0..MaxFormulas} :
                   \A i, j \in DOMAIN f :
                      normalize_cell(f[i].cell) = normalize_cell(f[j].cell) => i = j } }

\* the mappings callers pass to compute: the defaults; one without B1; one with
\* B1 = 0 that also holds an entry for the formula cell A2
InputMappings ==
    { (A1 :> 1) @@ (B1 :> 2),
      (<<"$","A","$","1">> :> 3),
      (A1 :> 1) @@ (B1 :> 0) @@ (A2 :> 7) }

Callers == {"t1", "t2"}


NoEval == [cell |-> <<>>, ok |-> TRUE, reads |-> {}, known |-> {}, before |-> {}]

\* no compute call in progress
ComputeIdle ==
    /\ pc = [t \in Callers |-> "idle"]
    /\ args = [t \in Callers |-> <<>>]
    /\ passed = [t \in Callers |-> <<>>]
    /\ callData = [t \in Callers |-> <<>>]
    /\ pos = [t \in Callers |-> 0]
    /\ outcome = [t \in Callers |-> NoOutcome]
    /\ evalLog = [t \in Callers |-> NoEval]

NoRunResult == <<>>

NoStrictRun == [ran |-> FALSE, success |-> FALSE]

NoOptResult == [kind |-> "none", err |-> "", result |-> <<>>]

\* no optimize call in progress
OptimizerIdle ==
    /\ optPc = "idle"
    /\ optValues = <<>>
    /\ optInitial = <<>>
    /\ optSoft = FALSE
    /\ optBounds = <<>>
    /\ optHistory = <<>>
    /\ optBest = NoBest
    /\ optFinal = <<>>
    /\ runResult = NoRunResult
    /\ strictRun = NoStrictRun
    /\ optResult = NoOptResult

NoCall == [fn |-> "none", arg |-> <<>>]

\* no function called directly
FnIdle ==
    /\ fnCall = NoCall
    /\ fnResult = <<>>

Init ==
    /\ schema \in Schemas
    /\ engine = NoEngine
    /\ ComputeIdle
    /\ OptimizerIdle
    /\ FnIdle

\* engine = ComputeEngine(schema)
Construct ==
    /\ engine.state = "new"
    /\ engine' = ComputeEngine(schema)
    /\ UNCHANGED <<fnVars, schema, computeVars, optVars>>

\* engine.compute(values) is entered: line 38
Call(t, values) ==
    /\ engine.state = "ready"
    /\ pc[t] = "idle"
    /\ pc' = [pc EXCEPT ![t] = "running"]
    /\ args' = [args EXCEPT ![t] = values]
    /\ passed' = [passed EXCEPT ![t] = values]
    /\ callData' = [callData EXCEPT ![t] = WorkingCopy(values)]
    /\ pos' = [pos EXCEPT ![t] = 1]
    /\ outcome' = [outcome EXCEPT ![t] = NoOutcome]
    /\ evalLog' = [evalLog EXCEPT ![t] = NoEval]
    /\ UNCHANGED <<fnVars, schema, engine, optVars>>

\* one pass of the loop of lines 39-44
Evaluate(t) ==
    /\ pc[t] = "running"
    /\ pos[t] <= Len(engine.order)
    /\ LET cell  == engine.order[pos[t]]
           snap  == Snapshot(callData[t], {callData[u] : u \in Callers \ {t}})
           r     == evaluate_formula(FormulaOf(engine.formulas, cell), snap)
       IN  /\ evalLog' = [evalLog EXCEPT ![t] =
                            [cell |-> cell, ok |-> r.ok, reads |-> r.reads,
                             known |-> DOMAIN callData[t],
                             before |-> {engine.order[j] : j \in 1..(pos[t] - 1)}]]
           /\ IF r.ok
              THEN /\ callData' = [callData EXCEPT ![t] = Store(callData[t], cell, r.val)]
                   /\ pos' = [pos EXCEPT ![t] = pos[t] + 1]
                   /\ UNCHANGED <<pc, outcome>>
              ELSE /\ pc' = [pc EXCEPT ![t] = "raised"]
                   /\ outcome' = [outcome EXCEPT ![t] = RaisedAt(cell)]
                   /\ callData' = [callData EXCEPT ![t] = <<>>]
                   /\ pos' = [pos EXCEPT ![t] = 0]
    /\ UNCHANGED <<fnVars, schema, engine, args, passed, optVars>>

\* lines 45-47: the loop is over, the ComputeResult is returned
Return(t) ==
    /\ pc[t] = "running"
    /\ pos[t] > Len(engine.order)
    /\ pc' = [pc EXCEPT ![t] = "returned"]
    /\ outcome' = [outcome EXCEPT ![t] = Returned(callData[t])]
    /\ callData' = [callData EXCEPT ![t] = <<>>]
    /\ pos' = [pos EXCEPT ![t] = 0]
    /\ UNCHANGED <<fnVars, schema, engine, args, passed, evalLog, optVars>>

Next ==
    \/ Construct
    \/ \E t \in Callers, values \in InputMappings : Call(t, values)
    \/ \E t \in Callers : Evaluate(t)
    \/ \E t \in Callers : Return(t)

Spec == Init /\ [][Next]_vars

(***************************************************************************)
(* The schemas, starting mappings and solver behaviour the optimizer is    *)
(* exercised with.  scipy's minimize is the environment: it may call the   *)
(* callback on any sequence of points, and return any point and message.   *)
(***************************************************************************)
\* the largest number of callbacks of one run
MaxIter == 2

C7 == <<"C","7">>

J7 == <<"J","7">>

C9 == <<"C","9">>

J94 == <<"J","9","4">>

E195 == <<"E","1","9","5">>

E197 == <<"E","1","9","7">>

J122 == <<"J","1","2","2">>

OptInputCells ==
    << [cell |-> C7, default |-> 40], [cell |-> J7, default |-> 5],
       [cell |-> C9, default |-> 0], [cell |-> J94, default |-> 0],
       [cell |-> E195, default |-> 40], [cell |-> E197, default |-> 44],
       [cell |-> <<"J","1","9","1">>, default |-> 1],
       [cell |-> <<"J","1","9","3">>, default |-> 5],
       [cell |-> <<"E","1","9","1">>, default |-> 0],
       [cell |-> <<"E","1","9","3">>, default |-> 0],
       [cell |-> <<"J","1","9","5">>, default |-> 0],
       [cell |-> <<"J","1","9","7">>, default |-> 0],
       [cell |-> J122, default |-> 13],
       [cell |-> <<"J","1","3","2">>, default |-> 12],
       [cell |-> <<"L","1","4","1">>, default |-> 5],
       [cell |-> <<"J","1","6","9">>, default |-> 17],
       [cell |-> <<"T","1","6","8">>, default |-> 14],
       [cell |-> <<"T","1","7","8">>, default |-> 14] >>

\* J204: =J7+C9, J76: =C7, J77: =C7+J7
OptFormulaCells ==
    << [cell |-> J204, formula |-> <<CellTerm(J7), CellTerm(C9)>>],
       [cell |-> J76, formula |-> <<CellTerm(C7)>>],
       [cell |-> J77, formula |-> <<CellTerm(C7), CellTerm(J7)>>] >>

Constraint(type, lhs, rhs) == [type |-> type, lhs |-> lhs, rhs |-> rhs]

\* none; C7 <= 40; 40 >= C7; J76 = 40 and J7 <= J193
OptConstraintLists ==
    { <<>>,
      << Constraint("le", C7, <<"4","0">>) >>,
      << Constraint("ge", <<"4","0">>, C7) >>,
      << Constraint("eq", J76, <<"4","0">>), Constraint("le", J7, <<"J","1","9","3">>) >> }

OptSchemas ==
    { [inputs |-> OptInputCells, formulas |-> OptFormulaCells,
       solver |-> [objective |-> o, variables |-> <<C7, J7, C9, J94>>, constraints |-> cs]] :
        o \in {J204, J77}, cs \in OptConstraintLists }

OptDefaults == build_default_cell_values([inputs |-> OptInputCells])

\* the starting mappings: the defaults; the defaults with the bound cells of C7
\* inverted; with an entry for the formula cell J76; without the key output
\* J122; without the decision variable J7
OptStartMappings ==
    { OptDefaults,
      [OptDefaults EXCEPT ![E195] = 44, ![E197] = 40],
      (J76 :> 44) @@ OptDefaults,
      [c \in DOMAIN OptDefaults \ {J122} |-> OptDefaults[c]],
      [c \in DOMAIN OptDefaults \ {J7} |-> OptDefaults[c]] }

\* the points (C7, J7, C9, J94) the solver visits and returns
SolverPoints == { <<40, 3, 0, 0>>, <<41, 2, 0, 0>>, <<44, 4, 0, 0>> }

\* result.message
SolverMessages == {"Optimization terminated successfully", "Iteration limit reached"}

(***************************************************************************)
(* Optimizer.optimize and _run_optimization as a state machine             *)
(***************************************************************************)
InitOpt ==
    /\ schema \in OptSchemas
    /\ engine = ComputeEngine(schema)
    /\ ComputeIdle
    /\ OptimizerIdle
    /\ FnIdle

OptRaised(err) == [kind |-> "raised", err |-> err, result |-> <<>>]

OptReturned(result) == [kind |-> "returned", err |-> "", result |-> <<result>>]

\* the soft run started whatever the strict run reported
NeedsSoft_always(strict_result) == TRUE

\* line 43: the soft run is needed
NeedsSoft(strict_result) == ~strict_result.success

\* a run that goes on with the history of the run before it
StartRun_same_history(soft, b) ==
    IF b.ok
    THEN /\ optPc' = "solving"
         /\ optSoft' = soft
         /\ optBounds' = b.val
         /\ optHistory' = optHistory
         /\ optBest' = NoBest
         /\ optResult' = optResult
    ELSE /\ optPc' = "raised"
         /\ optResult' = OptRaised(b.err)
         /\ UNCHANGED <<optSoft, optBounds, optHistory, optBest>>

\* lines 58-66 of _run_optimization: the run's history and best iterate, b being
\* the outcome of _build_bounds
StartRun(soft, b) ==
    IF b.ok
    THEN /\ optPc' = "solving"
         /\ optSoft' = soft
         /\ optBounds' = b.val
         /\ optHistory' = <<>>
         /\ optBest' = NoBest
         /\ optResult' = optResult
    ELSE /\ optPc' = "raised"
         /\ optResult' = OptRaised(b.err)
         /\ UNCHANGED <<optSoft, optBounds, optHistory, optBest>>

BeginRun(values, soft) == StartRun(soft, _build_bounds(engine, schema, values))

\* optimize(values), lines 40-42: the strict run is started
Optimize(values) ==
    /\ optPc = "idle"
    /\ optValues' = values
    /\ IF \E i \in DOMAIN schema.solver.variables :
              schema.solver.variables[i] \notin DOMAIN values
       THEN /\ optPc' = "raised"
            /\ optResult' = OptRaised("KeyError")
            /\ UNCHANGED <<optInitial, optSoft, optBounds, optHistory, optBest>>
       ELSE /\ optInitial' = [i \in DOMAIN schema.solver.variables |->
                                 values[schema.solver.variables[i]]]
            /\ BeginRun(values, FALSE)
    /\ UNCHANGED <<fnVars, schema, engine, computeVars, optFinal, runResult, strictRun>>

\* the callback has ended with r
Called(r) ==
    IF r.ok
    THEN /\ optHistory' = r.val.history
         /\ optBest' = r.val.best
         /\ UNCHANGED <<optPc, optResult>>
    ELSE /\ optPc' = "raised"
         /\ optResult' = OptRaised(r.err)
         /\ UNCHANGED <<optHistory, optBest>>

\* the solver calls callback(x)
SolverCallback(x) ==
    /\ optPc = "solving"
    /\ Len(optHistory) < MaxIter
    /\ Called(callback(engine, schema, optValues, optSoft, optHistory, optBest, x))
    /\ UNCHANGED <<fnVars, schema, engine, computeVars, optValues, optInitial, optSoft, optBounds,
                   optFinal, runResult, strictRun>>

\* _run_optimization has ended with r
Ran(r) ==
    IF r.ok
    THEN /\ optPc' = "ran"
         /\ runResult' = r.val
         /\ UNCHANGED optResult
    ELSE /\ optPc' = "raised"
         /\ optResult' = OptRaised(r.err)
         /\ UNCHANGED runResult

\* minimize returns result.x = x and result.message = message; lines 123-168.
\* SLSQP reports every major iteration to the callback and ends no earlier than
\* in its first major iteration
SolverReturn(x, message) ==
    /\ optPc = "solving"
    /\ Len(optHistory) >= 1
    /\ optFinal' = x
    /\ Ran(RunResult(engine, schema, optValues, optSoft, optHistory, optBest, x, message))
    /\ UNCHANGED <<fnVars, schema, engine, computeVars, optValues, optInitial, optSoft, optBounds,
                   optHistory, optBest, strictRun>>

\* lines 43-45: the strict run succeeded
ReturnStrict ==
    /\ optPc = "ran"
    /\ ~optSoft
    /\ ~NeedsSoft(runResult)
    /\ strictRun' = [ran |-> TRUE, success |-> runResult.success]
    /\ optResult' = OptReturned([runResult EXCEPT !.stage = "strict"])
    /\ optPc' = "returned"
    /\ UNCHANGED <<fnVars, schema, engine, computeVars, optValues, optInitial, optSoft, optBounds,
                   optHistory, optBest, optFinal, runResult>>

\* lines 46-47: the soft run is started with a new history; strict_result is
\* not used again
FallBackToSoft ==
    /\ optPc = "ran"
    /\ ~optSoft
    /\ NeedsSoft(runResult)
    /\ strictRun' = [ran |-> TRUE, success |-> runResult.success]
    /\ BeginRun(optValues, TRUE)
    /\ runResult' = NoRunResult
    /\ optFinal' = <<>>
    /\ UNCHANGED <<fnVars, schema, engine, computeVars, optValues, optInitial>>

\* lines 48-49: the soft run's result is returned
ReturnSoft ==
    /\ optPc = "ran"
    /\ optSoft
    /\ optResult' = OptReturned([runResult EXCEPT !.stage = "soft"])
    /\ optPc' = "returned"
    /\ UNCHANGED <<fnVars, schema, engine, computeVars, optValues, optInitial, optSoft, optBounds,
                   optHistory, optBest, optFinal, runResult, strictRun>>

NextOpt ==
    \/ \E values \in OptStartMappings : Optimize(values)
    \/ \E x \in SolverPoints : SolverCallback(x)
    \/ \E x \in SolverPoints, message \in SolverMessages : SolverReturn(x, message)
    \/ ReturnStrict
    \/ FallBackToSoft
    \/ ReturnSoft

SpecOpt == InitOpt /\ [][NextOpt]_vars

(***************************************************************************)
(* The functions of the optimizer and of the evaluator called directly:    *)
(* one call per behaviour, its arguments drawn from the sets below         *)
(***************************************************************************)
\* the columns of split_cell(col_to_letters(i) + "1"): 1..MaxColumn
MaxColumn == 16384

\* the corners of range_ lie in the square A1..(GridSize, GridSize)
GridSize == 3

FnCall(fn, arg) == [fn |-> fn, arg |-> arg]

\* the schema of the optimizer whose functions are called
FnSchema ==
    [inputs |-> OptInputCells, formulas |-> OptFormulaCells,
     solver |-> [objective |-> J204, variables |-> <<C7, J7, C9, J94>>, constraints |-> <<>>]]

J193 == <<"J","1","9","3">>

\* expr: a number, a formula cell, input cells as written and with "$" and
\* lower case, an address no mapping holds
ResolveExprs ==
    { <<"4","0">>, J76, J193, <<"$","j","$","1","9","3">>, C7, <<"Z","9">> }

\* values: the defaults; with a live entry for the formula cell J76; with J193
\* under a key that is not normalized; without J193; with a key that reads as a
\* number; without C7, which the formulas read
ResolveMappings ==
    { OptDefaults,
      (J76 :> 44) @@ OptDefaults,
      (<<"$","J","$","1","9","3">> :> 4) @@ [c \in DOMAIN OptDefaults \ {J193} |-> OptDefaults[c]],
      [c \in DOMAIN OptDefaults \ {J193} |-> OptDefaults[c]],
      (<<"4","0">> :> 7) @@ OptDefaults,
      [c \in DOMAIN OptDefaults \ {C7} |-> OptDefaults[c]] }

\* the mappings compute returns for: _constraint_violations passes computed,
\* and _build_bounds calls get, once compute(values) has returned
ComputedMappings == ResolveMappings \ { [c \in DOMAIN OptDefaults \ {C7} |-> OptDefaults[c]] }

\* cell: cells of bounds_map
BoundCells == { E195, J193 }

\* lhs_val, rhs_val
ViolationSides == { -100, -99, -1, 0, 1, 99, 100, 101, 200 }

\* violations: 0, 0.00005, 0.0001, 0.00011, 0.02, 0.05, 0.05001, 0.1, 3
StatusViolations ==
    { [num |-> n, den |-> 100000] : n \in {0, 5, 10, 11, 2000, 5000, 5001, 10000} }
        \cup { [num |-> 1, den |-> 10000], [num |-> 1, den |-> 20], [num |-> 1, den |-> 10],
               [num |-> 3, den |-> 1] }

\* the address of column col, row row of the square
GridAddress(col, row) == <<UpperLetters[col], Digits[row + 1]>>

GridAddresses == { GridAddress(col, row) : col \in 1..GridSize, row \in 1..GridSize }

\* the value in column col, row row of the square
GridValue(col, row) == 10 * row + col

FullGrid ==
    [a \in GridAddresses |->
        LET cr == CHOOSE p \in (1..GridSize) \X (1..GridSize) : GridAddress(p[1], p[2]) = a
        IN  GridValue(cr[1], cr[2])]

\* values: the whole square; the square without B2
GridMappings == { FullGrid, [a \in GridAddresses \ {GridAddress(2, 2)} |-> FullGrid[a]] }

\* cell: addresses with letters and digits; digits only; letters only; neither
SplitAddresses ==
    { <<"A","1">>, <<"$","B","$","1","2">>, <<"a","b","3">>, <<"1","2">>, <<"7">>,
      <<"A","B">>, <<"$">>, <<>> }

\* a formula holds at most MaxOps comparison operators
MaxOps == 2

\* the comparison operators of a formula text
ComparisonTokens ==
    { <<"<", ">">>, <<"=">>, <<"<", "=">>, <<">", "=">>, <<"=", "=">>, <<"<">>, <<">">> }

\* the operators of a formula, in order
OperatorLists == UNION { [1..n -> ComparisonTokens] : n \in 1..MaxOps }

\* the text of the formula: operands (the cell "a") joined by the operators,
\* after the "=" that starts a formula when lead
RECURSIVE JoinOperands(_)
JoinOperands(ops) ==
    IF ops = <<>> THEN <<"a">> ELSE <<"a">> \o Head(ops) \o JoinOperands(Tail(ops))

FormulaText(lead, ops) == (IF lead THEN <<"=">> ELSE <<>>) \o JoinOperands(ops)

\* the branches of an IF: a number, a cell, a quotient by a cell
IfArgs == { NumTerm(1), CellTerm(B1), ZDivTerm(A2) }

\* =IF(A1; true_val; false_val)
IfFormulas == { << IfTerm(CellTerm(A1), t, f) >> : t \in IfArgs, f \in IfArgs }

\* values: A1 0 or 1, A2 0 or 5, B1 absent or 7
IfMappings ==
    { (A1 :> c) @@ (A2 :> d) : c \in {0, 1}, d \in {0, 5} }
        \cup { (A1 :> c) @@ (A2 :> d) @@ (B1 :> 7) : c \in {0, 1}, d \in {0, 5} }

\* the schema of the optimizer with the constraints cs
WithConstraints(cs) == [FnSchema EXCEPT !.solver.constraints = cs]

\* values of _build_constraints: the defaults, and with an entry for J76
ConstraintMappings == { OptDefaults, (J76 :> 44) @@ OptDefaults }

FnCalls ==
    { FnCall("_resolve_value", <<e, v, FALSE>>) : e \in ResolveExprs, v \in ResolveMappings }
    \cup { FnCall("_resolve_value", <<e, v, TRUE>>) :
            e \in ResolveExprs, v \in ComputedMappings }
    \cup { FnCall("get", <<e, v>>) : e \in BoundCells, v \in ComputedMappings }
    \cup { FnCall("violation", <<t, l, r>>) :
            t \in {"le", "ge", "eq"}, l \in ViolationSides, r \in ViolationSides }
    \cup { FnCall("status", <<v>>) : v \in StatusViolations }
    \cup { FnCall("split_cell", <<i>>) : i \in 1..MaxColumn }
    \cup { FnCall("range_", <<v, s, e>>) :
            v \in GridMappings, s \in GridAddresses, e \in GridAddresses }
    \cup { FnCall("split", <<a>>) : a \in SplitAddresses }
    \cup { FnCall("_build_constraints", <<cs, soft, v, x>>) :
            cs \in OptConstraintLists, soft \in BOOLEAN, v \in ConstraintMappings,
            x \in SolverPoints }
    \cup { FnCall("evaluate_formula", <<f, v>>) : f \in IfFormulas, v \in IfMappings }
    \cup { FnCall("normalize_comparisons", <<lead, ops>>) :
            lead \in BOOLEAN, ops \in OperatorLists }

InitFn ==
    /\ schema = FnSchema
    /\ engine = ComputeEngine(schema)
    /\ ComputeIdle
    /\ OptimizerIdle
    /\ fnCall \in FnCalls
    /\ fnResult = <<>>

Pending(fn) == fnCall.fn = fn /\ fnResult = <<>>

\* the computed argument: compute(values).values as _constraint_violations
\* passes it, or None as _build_constraints leaves it
ComputedArgument(given, run) == IF given THEN SomeComputed(run.values) ELSE NoComputed

\* self._resolve_value(expr, values, computed)
ResolveValue ==
    /\ Pending("_resolve_value")
    /\ fnResult' = << _resolve_value(engine, schema, fnCall.arg[1], fnCall.arg[2],
                         ComputedArgument(fnCall.arg[3],
                                          ComputedValues(compute(engine, fnCall.arg[2])))) >>
    /\ UNCHANGED <<schema, engine, computeVars, optVars, fnCall>>

\* get(cell) of _build_bounds(values)
GetBound ==
    /\ Pending("get")
    /\ fnResult' = << BoundValue(schema, fnCall.arg[1], fnCall.arg[2],
                                 ComputedValues(compute(engine, fnCall.arg[2])).values) >>
    /\ UNCHANGED <<schema, engine, computeVars, optVars, fnCall>>

\* lines 261-266 for one constraint
ComputeViolation ==
    /\ Pending("violation")
    /\ fnResult' = << Violation(fnCall.arg[1], fnCall.arg[2], fnCall.arg[3]) >>
    /\ UNCHANGED <<schema, engine, computeVars, optVars, fnCall>>

\* line 268 for one violation
Classify ==
    /\ Pending("status")
    /\ fnResult' = << StatusOf(fnCall.arg[1]) >>
    /\ UNCHANGED <<schema, engine, computeVars, optVars, fnCall>>

\* split_cell(f"{col_to_letters(i)}1")
SplitColumn ==
    /\ Pending("split_cell")
    /\ fnResult' = << split_cell(col_to_letters(fnCall.arg[1]) \o FormatInt(1)) >>
    /\ UNCHANGED <<schema, engine, computeVars, optVars, fnCall>>

\* range_(start, end) of build_eval_context(values)
RangeLookup ==
    /\ Pending("range_")
    /\ fnResult' = << range_(fnCall.arg[1], fnCall.arg[2], fnCall.arg[3]) >>
    /\ UNCHANGED <<schema, engine, computeVars, optVars, fnCall>>

\* split_cell(cell)
SplitCell ==
    /\ Pending("split")
    /\ fnResult' = << split_cell(fnCall.arg[1]) >>
    /\ UNCHANGED <<schema, engine, computeVars, optVars, fnCall>>

\* lines 46 and 49 of parse_formula: normalize_comparisons(formula.lstrip("="))
NormalizeComparisons ==
    /\ Pending("normalize_comparisons")
    /\ fnResult' = << normalize_comparisons(
                         lstrip_equals(FormulaText(fnCall.arg[1], fnCall.arg[2]))) >>
    /\ UNCHANGED <<schema, engine, computeVars, optVars, fnCall>>

\* evaluate_formula(formula, values)
EvaluateFormula ==
    /\ Pending("evaluate_formula")
    /\ fnResult' = << evaluate_formula(fnCall.arg[1], fnCall.arg[2]) >>
    /\ UNCHANGED <<schema, engine, computeVars, optVars, fnCall>>

\* the constraints built are evaluated at x, as minimize evaluates them
CalledAt(sch, values, x, constraints) ==
    [i \in DOMAIN constraints |->
        [type |-> constraints[i].type,
         fun  |-> func(engine, sch, values, constraints[i].fun, x)]]

\* self._build_constraints(values, soft), and every fun of the list called with x
BuildConstraints ==
    /\ Pending("_build_constraints")
    /\ fnResult' = << CalledAt(WithConstraints(fnCall.arg[1]), fnCall.arg[3], fnCall.arg[4],
                               _build_constraints(WithConstraints(fnCall.arg[1]),
                                                  fnCall.arg[2])) >>
    /\ UNCHANGED <<schema, engine, computeVars, optVars, fnCall>>

NextFn ==
    \/ ResolveValue
    \/ GetBound
    \/ ComputeViolation
    \/ Classify
    \/ SplitColumn
    \/ RangeLookup
    \/ SplitCell
    \/ NormalizeComparisons
    \/ EvaluateFormula
    \/ BuildConstraints

SpecFn == InitFn /\ [][NextFn]_vars

(***************************************************************************)
(* Notions the properties are stated with                                  *)
(***************************************************************************)
GraphNodes(graph) == Range(graph.keys)

\* the formula cells a node depends on
NodeDeps(graph, node) == graph.deps[node] \cap GraphNodes(graph)

\* the nodes reachable from the nodes of frontier along dependency edges
RECURSIVE Reach(_, _, _)
Reach(graph, frontier, seen) ==
    LET next == (UNION {NodeDeps(graph, n) : n \in frontier}) \ seen
    IN  IF next = {} THEN seen ELSE Reach(graph, next, seen \cup next)

OnCycle(graph, node) ==
    node \in Reach(graph, NodeDeps(graph, node), NodeDeps(graph, node))

Acyclic(graph) == \A node \in GraphNodes(graph) : ~OnCycle(graph, node)

\* every address a formula names: single references and all members of its ranges
NamedAddresses(formula) ==
    UNION { IF formula[k].kind = "range"
            THEN Range(range_cells(normalize_cell(formula[k].a), normalize_cell(formula[k].b)))
            ELSE IF formula[k].kind = "num" THEN {}
            ELSE {normalize_cell(formula[k].a)} : k \in DOMAIN formula }

Evaluated(t) == evalLog[t].cell /= <<>>

(***************************************************************************)
(* C1: during compute, every formula cell read by the evaluation of a      *)
(* formula cell was evaluated earlier in the same call.                    *)
(***************************************************************************)
C1_ReadsAlreadyEvaluated ==
    \A t \in Callers :
        Evaluated(t) =>
            \A r \in evalLog[t].reads \cap GraphNodes(engine.graph) :
                r \in evalLog[t].before

(***************************************************************************)
(* C2: for an acyclic graph topological_sort succeeds, the order holds     *)
(* each formula cell exactly once, and every cell comes after the formula  *)
(* cells of its dependency set (inputs impose no ordering).                *)
(***************************************************************************)
C2_TopologicalOrder ==
    (engine.state /= "new" /\ Acyclic(engine.graph)) =>
        /\ engine.state = "ready"
        /\ Len(engine.order) = Len(engine.graph.keys)
        /\ Range(engine.order) = GraphNodes(engine.graph)
        /\ \A i \in DOMAIN engine.order :
              \A d \in NodeDeps(engine.graph, engine.order[i]) :
                  \E j \in 1..(i - 1) : engine.order[j] = d

\* an order that differs from the schema's order and a cell with an input dependency
C2_Witness ==
    /\ engine.state = "ready"
    /\ Len(engine.order) >= 2
    /\ engine.order /= engine.graph.keys
    /\ \E n \in GraphNodes(engine.graph) :
          engine.graph.deps[n] \ GraphNodes(engine.graph) /= {}

(***************************************************************************)
(* C3: for a graph with a cycle (a self-dependency included) construction  *)
(* fails and the reported cell set holds every cell that lies on a cycle.  *)
(***************************************************************************)
C3_CycleReported ==
    (engine.state /= "new" /\ ~Acyclic(engine.graph)) =>
        /\ engine.state = "failed"
        /\ \A n \in GraphNodes(engine.graph) :
              OnCycle(engine.graph, n) => n \in engine.missing

\* a cycle through two cells
C3_Witness ==
    /\ engine.state = "failed"
    /\ \E n \in engine.missing :
          n \notin engine.graph.deps[n] /\ OnCycle(engine.graph, n)

(***************************************************************************)
(* C4: the dependency set of a formula with a range reference holds every  *)
(* address of the expanded range.                                          *)
(***************************************************************************)
C4_RangeMembersAreDependencies ==
    engine.state /= "new" =>
        \A i \in DOMAIN engine.formulas :
            \A k \in DOMAIN engine.formulas[i].formula :
                LET t == engine.formulas[i].formula[k]
                IN  t.kind = "range" =>
                        Range(range_cells(normalize_cell(t.a), normalize_cell(t.b)))
                            \subseteq engine.graph.deps[engine.formulas[i].cell]

(***************************************************************************)
(* C5: when the evaluation of a formula cell fails, compute raises an      *)
(* error naming that cell, returns no ComputeResult, and leaves the        *)
(* caller's mapping as it was.                                             *)
(***************************************************************************)
C5_FailureAbortsCompute ==
    \A t \in Callers :
        /\ (Evaluated(t) /\ ~evalLog[t].ok) => pc[t] = "raised"
        /\ pc[t] = "raised" =>
              /\ Evaluated(t) /\ ~evalLog[t].ok
              /\ outcome[t].kind = "raised"
              /\ outcome[t].cell = evalLog[t].cell
              /\ outcome[t].result = <<>>
              /\ args[t] = passed[t]
        /\ pc[t] = "returned" => evalLog[t].ok

\* a failure after an earlier cell of the same call was evaluated
C5_Witness ==
    \E t \in Callers : pc[t] = "raised" /\ evalLog[t].before /= {}

(***************************************************************************)
(* C6: a formula that names an address neither supplied nor computed yet   *)
(* makes compute fail; no schema default is substituted.                   *)
(***************************************************************************)
C6_NoDefaultSubstituted ==
    \A t \in Callers :
        /\ ( /\ Evaluated(t)
             /\ NamedAddresses(FormulaOf(engine.formulas, evalLog[t].cell))
                    \ evalLog[t].known /= {} )
              => (~evalLog[t].ok /\ pc[t] = "raised" /\ outcome[t].kind = "raised")
        /\ pc[t] = "returned" =>
              DOMAIN outcome[t].result[1].values
                  = DOMAIN WorkingCopy(passed[t]) \cup Range(engine.order)

\* the absent address has a schema default
C6_Witness ==
    \E t \in Callers :
        /\ pc[t] = "raised"
        /\ \E r \in evalLog[t].reads :
              r \notin evalLog[t].known /\ r \in DOMAIN build_default_cell_values(schema)

(***************************************************************************)
(* C7: under any interleaving of compute calls every call ends as it ends  *)
(* when run alone, and no call changes the engine.                         *)
(***************************************************************************)
C7_ComputeIsPure ==
    /\ \A t \in Callers :
          pc[t] \in {"returned", "raised"} => outcome[t] = compute(engine, passed[t])
    /\ engine.state /= "new" => engine = ComputeEngine(schema)

\* two calls with different mappings, both past their first cell, one finished
C7_Witness ==
    /\ pc["t1"] = "returned"
    /\ pc["t2"] = "running"
    /\ pos["t2"] > 1
    /\ passed["t1"] /= passed["t2"]
    /\ Len(engine.order) >= 2

(***************************************************************************)
(* Properties of Optimizer.optimize, stated over SpecOpt                   *)
(***************************************************************************)
\* the OptimizationResult optimize returned
ReturnedResult == optResult.result[1]

\* the tolerance of a result's mode as 1/ToleranceInverse: 0.05 soft, 0.0001 strict
ToleranceInverse(result) ==
    IF result.stage = "soft" THEN SoftTolInverse ELSE StrictTolInverse

\* the largest violation among the result's constraint statuses is at most the
\* tolerance of its mode
StatusesWithinTolerance(result) ==
    \A i \in DOMAIN result.constraints :
        result.constraints[i].violation.num
            <= result.constraints[i].violation.den \div ToleranceInverse(result)

\* success <=> max violation of the returned statuses <= tolerance, the statuses
\* being those of the returned values
SuccessIsFeasibility(result) ==
    /\ result.success <=> StatusesWithinTolerance(result)
    /\ result.constraints = <<>> => result.success
    /\ _constraint_violations(engine, schema, result.values).ok
    /\ _constraint_violations(engine, schema, result.values).val.statuses
           = result.constraints

\* C8: after every optimize call that returned success = true, compute on the
\* returned values yields, for the schema's objective cell, exactly the
\* objective stored in the result
C8_RecomputeReproducesObjective ==
    (optPc = "returned" /\ ReturnedResult.success) =>
        /\ compute(engine, ReturnedResult.values).kind = "returned"
        /\ compute(engine, ReturnedResult.values).result[1]
               .values[normalize_cell(schema.solver.objective)] = ReturnedResult.objective

\* C9: the strict run comes first; the soft run is made iff the strict run
\* reported success = false; the returned stage is "strict" exactly when the
\* strict run succeeded, so stage "strict" implies success and success = false
\* implies stage "soft"
C9_StrictThenSoftOnFailure ==
    /\ (optPc \in {"solving", "ran"} /\ ~strictRun.ran) => ~optSoft
    /\ (optPc \in {"solving", "ran", "returned"} /\ optSoft) =>
            strictRun.ran /\ ~strictRun.success
    /\ optPc = "returned" =>
            /\ strictRun.ran
            /\ optSoft <=> ~strictRun.success
            /\ ReturnedResult.stage = "strict" <=> strictRun.success
            /\ ReturnedResult.stage \in {"strict", "soft"}
            /\ ReturnedResult.stage = "strict" => ReturnedResult.success
            /\ ~ReturnedResult.success => ReturnedResult.stage = "soft"

\* a soft result returned after the strict run reported failure, and the soft
\* run itself failed
C9_Witness ==
    /\ optPc = "returned"
    /\ strictRun.ran /\ ~strictRun.success
    /\ ReturnedResult.stage = "soft"
    /\ ~ReturnedResult.success
    /\ ReturnedResult.history /= <<>>

\* C10: in every result of a run, success is true iff the largest violation
\* among the returned constraint statuses (those of the returned values) is at
\* most the mode's tolerance, 1e-4 strict and 0.05 soft; with no constraints
\* success is true
C10_SuccessIffWithinTolerance ==
    /\ optPc = "ran" => SuccessIsFeasibility(runResult)
    /\ optPc = "returned" => SuccessIsFeasibility(ReturnedResult)

\* a run with constraints that returned the tracked best feasible iterate in
\* place of the solver's final point, with success = true
C10_Witness ==
    /\ optPc = "ran"
    /\ runResult.success
    /\ runResult.message.best_iter > 0
    /\ runResult.constraints /= <<>>

\* the mapping of the point minimize returned, and the objective the run
\* computed for it (final_values, final_obj)
FinalValues == _update_values(schema, optValues, optFinal)

FinalObj == FinalObjective(compute(engine, FinalValues)).val

\* the result's point is the iterate of the record rec
IsIterate(result, rec) ==
    /\ result.values = rec.variables @@ optValues
    /\ result.objective = rec.objective

\* the record's maximum violation is within the tolerance of the run's mode
FeasibleRecord(rec) == WithinTolerance(max_violation(rec.violations), optSoft)

\* the result of the run in progress is its final point or one of its recorded
\* iterates, and no final or feasible recorded objective is below its objective
ChosenIsLowest(result) ==
    /\ result.history = optHistory
    /\ \/ result.values = FinalValues /\ result.objective = FinalObj
       \/ \E i \in DOMAIN optHistory : IsIterate(result, optHistory[i])
    /\ result.objective <= FinalObj
    /\ \A i \in DOMAIN optHistory :
          FeasibleRecord(optHistory[i]) => result.objective <= optHistory[i].objective
    /\ result.values /= FinalValues => result.objective < FinalObj
    /\ result.message.best_iter > 0 => result.objective < FinalObj

\* C11: the point a run returns is the solver's final point or an iterate of
\* the run's history; its objective is no greater than the final point's and
\* no greater than that of any recorded iterate whose maximum violation is
\* within the mode's tolerance; the tracked best iterate replaces the final
\* point only when its objective is strictly lower
C11_ReturnedPointIsLowestFeasible ==
    /\ optPc = "ran" => ChosenIsLowest(runResult)
    /\ optPc = "returned" => ChosenIsLowest(ReturnedResult)

\* a run of two callbacks on feasible iterates that returned the earlier one,
\* the later iterate and the final point both having a higher objective
C11_Witness ==
    /\ optPc = "ran"
    /\ Len(optHistory) = 2
    /\ FeasibleRecord(optHistory[1]) /\ FeasibleRecord(optHistory[2])
    /\ IsIterate(runResult, optHistory[1])
    /\ optHistory[2].objective > runResult.objective
    /\ FinalObj > runResult.objective
    /\ runResult.values /= FinalValues

\* the value compute gives the cell named by the schema's solver objective
ObjectiveCellAt(values) ==
    compute(engine, values).result[1].values[normalize_cell(schema.solver.objective)]

\* C12: what the optimizer minimizes (the objective function of the strict
\* run), records as the objective of every iteration record and returns as the
\* result's objective is the value of the cell named by the schema's solver
\* objective address
C12_ObjectiveIsSchemaObjectiveCell ==
    /\ (optPc = "solving" /\ ~optSoft) =>
          \A x \in SolverPoints :
              objective(engine, schema, optValues, optSoft, x) =
                  Ok([num |-> ObjectiveCellAt(_update_values(schema, optValues, x)),
                      den |-> 1])
    /\ optPc \in {"solving", "ran"} =>
          \A i \in DOMAIN optHistory :
              optHistory[i].objective =
                  ObjectiveCellAt(optHistory[i].variables @@ optValues)
    /\ optPc = "ran" => runResult.objective = ObjectiveCellAt(runResult.values)
    /\ optPc = "returned" =>
          ReturnedResult.objective = ObjectiveCellAt(ReturnedResult.values)

\* minimize has returned in this step
MinimizeReturns == optPc = "solving" /\ optFinal' /= optFinal

\* the run that has just ended did not reach a point within its tolerance
RunFailed == optPc = "ran" /\ ~runResult.success

\* C13: a run whose computes succeed ends with a result, never an exception,
\* also when its point is outside the tolerance; after a failed strict run the
\* soft run is made, and after a failed soft run optimize returns success =
\* false, stage "soft", and the run's message, values, objective and statuses
C13_InfeasibleIsReported ==
    [][/\ (MinimizeReturns /\ compute(engine, FinalValues').kind = "returned") =>
              /\ optPc' = "ran"
              /\ runResult'.values \in {FinalValues', optBest.values}
       /\ (RunFailed /\ ~optSoft) => (optPc' = "solving" /\ optSoft')
       /\ (RunFailed /\ optSoft) =>
              /\ optPc' = "returned"
              /\ optResult'.kind = "returned"
              /\ ~ReturnedResult'.success
              /\ ReturnedResult'.stage = "soft"
              /\ ReturnedResult'.message = runResult.message
              /\ ReturnedResult'.values = runResult.values
              /\ ReturnedResult'.objective = runResult.objective
              /\ ReturnedResult'.constraints = runResult.constraints
      ]_vars

\* optimize has returned after two runs that both ended outside their
\* tolerance: success = false, stage "soft", a violated constraint reported
C13_Witness ==
    /\ optPc = "returned"
    /\ strictRun.ran /\ ~strictRun.success
    /\ ~ReturnedResult.success
    /\ ReturnedResult.stage = "soft"
    /\ ReturnedResult.values = FinalValues
    /\ \E i \in DOMAIN ReturnedResult.constraints :
          ReturnedResult.constraints[i].status = "red"

\* one status per declared constraint, in declaration order, the i-th named
\* "C<i>: <lhs> <type> <rhs>"
OneStatusPerConstraint(result) ==
    /\ Len(result.constraints) = Len(schema.solver.constraints)
    /\ \A i \in DOMAIN schema.solver.constraints :
          /\ result.constraints[i].name.idx = i
          /\ result.constraints[i].name.lhs = schema.solver.constraints[i].lhs
          /\ result.constraints[i].name.type = schema.solver.constraints[i].type
          /\ result.constraints[i].name.rhs = schema.solver.constraints[i].rhs

\* C14: the constraints list of every result has exactly one status per
\* constraint the schema declares, in declaration order, the i-th carrying the
\* prefix C<i>, in strict and in soft mode and whichever point was chosen
C14_OneStatusPerConstraint ==
    /\ optPc = "ran" => OneStatusPerConstraint(runResult)
    /\ optPc = "returned" => OneStatusPerConstraint(ReturnedResult)

\* a soft result over a schema of two constraints, the tracked best iterate
\* having been chosen and all its constraints satisfied
C14_Witness ==
    /\ optPc = "returned"
    /\ ReturnedResult.stage = "soft"
    /\ Len(schema.solver.constraints) = 2
    /\ ReturnedResult.message.best_iter > 0
    /\ \A i \in DOMAIN ReturnedResult.constraints :
          ReturnedResult.constraints[i].status = "green"

Done(fn) == fnCall.fn = fn /\ fnResult /= <<>>

\* the first applicable source for expr: its number; the entry of values for
\* the normalized address; the entry of the mapping compute(values) returns
\* (the FormulaError of compute when it raises); the schema default; KeyError
FirstApplicable(expr, values, run) ==
    IF IsNumber(expr) THEN Ok(ParseInt(expr))
    ELSE IF normalize_cell(expr) \in DOMAIN values THEN Ok(values[normalize_cell(expr)])
    ELSE IF run.kind = "raised" THEN Fail("FormulaError")
    ELSE IF normalize_cell(expr) \in DOMAIN run.values THEN Ok(run.values[normalize_cell(expr)])
    ELSE IF normalize_cell(expr) \in DOMAIN OptDefaults THEN Ok(OptDefaults[normalize_cell(expr)])
    ELSE Fail("KeyError")

\* what _resolve_value gives for the expressions and mappings that tell the
\* sources apart
ResolvedAsExpected(expr, values, r) ==
    /\ expr = <<"4","0">> => r = Ok(40)
    /\ expr = J76 /\ J76 \in DOMAIN values /\ C7 \in DOMAIN values => r = Ok(44)
    /\ expr = J76 /\ J76 \notin DOMAIN values /\ C7 \in DOMAIN values => r = Ok(40)
    /\ expr = J76 /\ C7 \notin DOMAIN values => r = Fail("FormulaError")
    /\ expr \in {J193, <<"$","j","$","1","9","3">>} /\ J193 \in DOMAIN values => r = Ok(5)
    /\ expr \in {J193, <<"$","j","$","1","9","3">>} /\ J193 \notin DOMAIN values
         /\ <<"$","J","$","1","9","3">> \in DOMAIN values => r = Ok(4)
    /\ expr \in {J193, <<"$","j","$","1","9","3">>} /\ J193 \notin DOMAIN values
         /\ <<"$","J","$","1","9","3">> \notin DOMAIN values => r = Ok(5)
    /\ expr = <<"Z","9">> /\ C7 \in DOMAIN values => r = Fail("KeyError")
    /\ expr = <<"Z","9">> /\ C7 \notin DOMAIN values => r = Fail("FormulaError")

\* C16: _resolve_value and get of _build_bounds return the first applicable of:
\* the number expr parses as; the entry of the live values for the normalized
\* address; the entry of the freshly computed mapping; the schema default; and
\* raise KeyError, the unresolved reference, when none applies
C16_ResolutionOrder ==
    /\ Done("_resolve_value") =>
          /\ fnResult[1] = FirstApplicable(fnCall.arg[1], fnCall.arg[2],
                                           ComputedValues(compute(engine, fnCall.arg[2])))
          /\ ResolvedAsExpected(fnCall.arg[1], fnCall.arg[2], fnResult[1])
    /\ Done("get") =>
          /\ fnResult[1] = FirstApplicable(fnCall.arg[1], fnCall.arg[2],
                                           ComputedValues(compute(engine, fnCall.arg[2])))
          /\ ResolvedAsExpected(fnCall.arg[1], fnCall.arg[2], fnResult[1])

\* J193 resolved from the computed mapping though the schema declares a default for it
C16_Witness ==
    /\ Done("_resolve_value")
    /\ fnCall.arg[1] = <<"$","j","$","1","9","3">>
    /\ J193 \notin DOMAIN fnCall.arg[2]
    /\ <<"$","J","$","1","9","3">> \in DOMAIN fnCall.arg[2]
    /\ ~fnCall.arg[3]
    /\ fnResult[1] = Ok(4)

\* the fraction v equals n / max(guard, 1e-6), guard being an integer >= 0
IsRelative(v, n, guard) ==
    IF guard = 0 THEN v.num = n * EpsInverse * v.den ELSE v.num * guard = n * v.den

\* the relative formula of the kind: the excess over max(|rhs|, eps) for le, the
\* shortfall over max(|lhs|, eps) for ge, the distance over max(|rhs|, eps) for eq
RelativeFormula(type, lhs, rhs, v) ==
    /\ type = "le" => IsRelative(v, IF lhs > rhs THEN lhs - rhs ELSE 0, Abs(rhs))
    /\ type = "ge" => IsRelative(v, IF rhs > lhs THEN rhs - lhs ELSE 0, Abs(lhs))
    /\ type = "eq" => IsRelative(v, Abs(lhs - rhs), Abs(rhs))

\* C17: the violation of a constraint is the relative formula of its kind with
\* eps = 1e-6 guarding the denominator; for le it is 0 when lhs = rhs and when
\* lhs < rhs, and 0.01 when lhs exceeds rhs by 1% of |rhs|; it is never negative
C17_ViolationFormula ==
    Done("violation") =>
        /\ fnResult[1].den > 0
        /\ fnResult[1].num >= 0
        /\ RelativeFormula(fnCall.arg[1], fnCall.arg[2], fnCall.arg[3], fnResult[1])
        /\ fnCall.arg[1] = "le" /\ fnCall.arg[2] <= fnCall.arg[3] => fnResult[1].num = 0
        /\ fnCall.arg[1] = "le" /\ fnCall.arg[3] /= 0
             /\ (fnCall.arg[2] - fnCall.arg[3]) * 100 = Abs(fnCall.arg[3])
             => fnResult[1].num * 100 = fnResult[1].den

\* le with lhs = 101, rhs = 100: the violation is 1/100
C17_Witness ==
    /\ Done("violation")
    /\ fnCall.arg = <<"le", 101, 100>>
    /\ fnResult[1].num * 100 = fnResult[1].den

\* C18: the status follows from the violation alone, with inclusive thresholds:
\* violation <= 0.0001 gives "green" (satisfied), otherwise violation <= 0.05
\* gives "yellow" (marginal), otherwise "red" (violated)
C18_StatusTiers ==
    Done("status") =>
        /\ fnResult[1] = IF fnCall.arg[1].num * 10000 <= fnCall.arg[1].den THEN "green"
                         ELSE IF fnCall.arg[1].num * 100 <= 5 * fnCall.arg[1].den THEN "yellow"
                         ELSE "red"
        /\ fnCall.arg[1] = [num |-> 5, den |-> 100000] => fnResult[1] = "green"
        /\ fnCall.arg[1] = [num |-> 2000, den |-> 100000] => fnResult[1] = "yellow"
        /\ fnCall.arg[1] = [num |-> 10000, den |-> 100000] => fnResult[1] = "red"

\* the violation 0.05, on the threshold, classified marginal
C18_Witness ==
    /\ Done("status")
    /\ fnCall.arg[1] = [num |-> 5000, den |-> 100000]
    /\ fnResult[1] = "yellow"

\* C19: for every column index i in 1..MaxColumn, split_cell of the address
\* made of col_to_letters(i) and row 1 is (i, 1)
C19_ColumnRoundTrip ==
    Done("split_cell") => fnResult[1] = [ok |-> TRUE, col |-> fnCall.arg[1], row |-> 1]

\* column 16384, "XFD", split back
C19_Witness ==
    /\ Done("split_cell")
    /\ fnCall.arg[1] = 16384
    /\ fnResult[1].col = 16384

\* column and row of an address of the square
GridColumn(a) == CHOOSE col \in 1..GridSize : \E row \in 1..GridSize : GridAddress(col, row) = a

GridRow(a) == CHOOSE row \in 1..GridSize : \E col \in 1..GridSize : GridAddress(col, row) = a

\* list holds the values of the cells of columns c0..c1, rows r0..r1, row by
\* row from r0 up and, within a row, column by column from c0 up
IsRowMajor(list, values, c0, c1, r0, r1) ==
    /\ Len(list) = (r1 - r0 + 1) * (c1 - c0 + 1)
    /\ \A row \in r0..r1 : \A col \in c0..c1 :
          list[(row - r0) * (c1 - c0 + 1) + (col - c0) + 1] = values[GridAddress(col, row)]

\* r is what the claim says of range_(start, end) over values: the row-major
\* list of the rectangle the two corners span when values holds all its cells
RangeAsClaimed(values, c0, c1, r0, r1, r) ==
    (\A row \in r0..r1 : \A col \in c0..c1 : GridAddress(col, row) \in DOMAIN values) =>
        /\ r.ok
        /\ IsRowMajor(r.val, values, c0, c1, r0, r1)

\* C20: range_ between two corners yields the values of all the cells of the
\* rectangle, corners included, rows ascending and columns ascending within a
\* row, whichever corner comes first; A1:B2 and B2:A1 give A1, B1, A2, B2
C20_RangeIsRowMajor ==
    Done("range_") =>
        /\ RangeAsClaimed(fnCall.arg[1],
                          Min(GridColumn(fnCall.arg[2]), GridColumn(fnCall.arg[3])),
                          Max(GridColumn(fnCall.arg[2]), GridColumn(fnCall.arg[3])),
                          Min(GridRow(fnCall.arg[2]), GridRow(fnCall.arg[3])),
                          Max(GridRow(fnCall.arg[2]), GridRow(fnCall.arg[3])),
                          fnResult[1])
        /\ fnCall.arg[1] = FullGrid
             /\ {fnCall.arg[2], fnCall.arg[3]} = {<<"A","1">>, <<"B","2">>} =>
                fnResult[1].val = << FullGrid[<<"A","1">>], FullGrid[<<"B","1">>],
                                     FullGrid[<<"A","2">>], FullGrid[<<"B","2">>] >>

\* range_("B2", "A1") has returned the values of A1, B1, A2, B2
C20_Witness ==
    /\ Done("range_")
    /\ fnCall.arg = <<FullGrid, <<"B","2">>, <<"A","1">> >>
    /\ fnResult[1].val = <<11, 12, 21, 22>>

\* C21: split_cell fails for every address without column letters and for every
\* address without row digits; it returns no result for such an address
C21_SplitRejectsMalformed ==
    Done("split")
        /\ (SelectSeq(fnCall.arg[1], isalpha) = <<>> \/ SelectSeq(fnCall.arg[1], isdigit) = <<>>)
        => ~fnResult[1].ok

\* the operator the claim says a comparison token is rewritten into
Rewritten(op) ==
    IF op = <<"<", ">">> THEN <<"!", "=">>
    ELSE IF op = <<"=">> THEN <<"=", "=">>
    ELSE op

\* C22: parsing rewrites each <> into one != and each single = into one ==,
\* and leaves <=, >= and == as they are; the = of a != that came from <> is not
\* rewritten again
C22_ComparisonsRewrittenOnce ==
    Done("normalize_comparisons") =>
        fnResult[1] = JoinOperands([i \in DOMAIN fnCall.arg[2] |-> Rewritten(fnCall.arg[2][i])])

\* the term t evaluated as a formula of its own over values
Alone(t, values) == evaluate_formula(<<t>>, values)

\* what the claim says of r, the outcome of =IF(c; a; b) over values
BothBranchesEvaluated(c, a, b, values, r) ==
    /\ Alone(c, values).ok /\ Alone(c, values).val /= 0 /\ ~Alone(b, values).ok => ~r.ok
    /\ Alone(c, values).ok /\ Alone(c, values).val = 0 /\ ~Alone(a, values).ok => ~r.ok
    /\ Alone(c, values).ok /\ Alone(a, values).ok /\ Alone(b, values).ok =>
          /\ r.ok
          /\ r.val = IF Alone(c, values).val /= 0 THEN Alone(a, values).val
                     ELSE Alone(b, values).val

\* C23: IF evaluates both branches before it selects: when the branch that is
\* not selected fails (absent cell, division by zero) the formula fails with
\* FormulaError though the selected branch evaluates
C23_IfEvaluatesBothBranches ==
    Done("evaluate_formula") =>
        BothBranchesEvaluated(fnCall.arg[1][1].args[1], fnCall.arg[1][1].args[2],
                              fnCall.arg[1][1].args[3], fnCall.arg[2], fnResult[1])

\* =IF(A1; 1; B1) with A1 = 1 and B1 absent has raised
C23_Witness ==
    /\ Done("evaluate_formula")
    /\ fnCall.arg[1] = << IfTerm(CellTerm(A1), NumTerm(1), CellTerm(B1)) >>
    /\ fnCall.arg[2] = (A1 :> 1) @@ (A2 :> 5)
    /\ ~fnResult[1].ok

\* the records of history are numbered 1, 2, ... in order
NumberedFromOne(history) == \A k \in DOMAIN history : history[k].iteration = k

\* one step of a run as the claim states it: a run starts with an empty
\* history, a callback that returns appends one record, no other step touches
\* the records, which are numbered from 1 at every moment
HistoryStep ==
    /\ optPc /= "solving" /\ optPc' = "solving" => optHistory' = <<>>
    /\ optPc = "solving" /\ optPc' = "solving" =>
          /\ Len(optHistory') = Len(optHistory) + 1
          /\ SubSeq(optHistory', 1, Len(optHistory)) = optHistory
    /\ optPc' /= "solving" => optHistory' = optHistory
    /\ NumberedFromOne(optHistory')
    /\ optPc' = "ran" => runResult'.history = optHistory'

\* C24: within a run the history is append-only: each callback appends exactly
\* one record, no record is removed or changed afterwards, and the k-th record
\* has iteration k at every moment
C24_HistoryAppendOnly == [][HistoryStep]_vars

\* a history of two records
C24_Witness ==
    /\ optPc = "solving"
    /\ Len(optHistory) = 2
    /\ optHistory[2].iteration = 2

\* the pair of lo and hi in order
Ordered(lo, hi) == IF lo > hi THEN <<hi, lo>> ELSE <<lo, hi>>

\* bounds holds, for every decision variable, the resolved values of its two
\* bound cells over values, the lower first; run is compute(values)
BoundsAsClaimed(bounds, values, run) ==
    /\ Len(bounds) = Len(schema.solver.variables)
    /\ \A i \in DOMAIN bounds :
          /\ bounds[i][1] <= bounds[i][2]
          /\ bounds[i] = Ordered(
                FirstApplicable(bounds_map[schema.solver.variables[i]][1], values, run).val,
                FirstApplicable(bounds_map[schema.solver.variables[i]][2], values, run).val)

\* the bounds of a run that starts are those of the base values, and no step
\* of the run changes them
BoundsStep ==
    /\ optPc' = "solving" =>
          BoundsAsClaimed(optBounds', optValues', ComputedValues(compute(engine, optValues')))
    /\ optPc \in {"solving", "ran"} /\ optPc' \in {"solving", "ran", "returned"}
          /\ optSoft' = optSoft => optBounds' = optBounds

\* C25: every bound pair handed to the solver has lower <= upper and holds the
\* resolved values of the variable's two bound cells, swapped when inverted;
\* the bounds are derived from the run's base values before the solver starts
\* and stay fixed for the run
C25_BoundsOrderedAndFixed == [][BoundsStep]_vars

\* the inverted bound cells of C7 (E195 = 44, E197 = 40) handed over as (40, 44)
C25_Witness ==
    /\ optPc = "solving"
    /\ Len(optHistory) = 1
    /\ optValues[E195] = 44
    /\ optValues[E197] = 40
    /\ optBounds[1] = <<40, 44>>

\* C26: a run in which some recorded iterate has its maximum violation within
\* the tolerance of the run's mode reports success = true
C26_SeenFeasibleGivesSuccess ==
    optPc = "ran" /\ (\E k \in DOMAIN optHistory : FeasibleRecord(optHistory[k]))
        => runResult.success

\* the step that starts the soft run after the strict run failed
FallsBack == optPc = "ran" /\ ~optSoft /\ optSoft'

\* the step that returns the soft run's result
ReturnsSoft == optPc = "ran" /\ optSoft /\ optPc' = "returned"

\* the fallback keeps the initial point and the base values and starts with no
\* record; what optimize then returns is the history the soft run has built
FallbackStep ==
    /\ FallsBack =>
          /\ optInitial' = optInitial
          /\ optValues' = optValues
          /\ optHistory' = <<>>
          /\ optPc' = "solving"
    /\ ReturnsSoft =>
          /\ optResult'.result[1].history = optHistory
          /\ NumberedFromOne(optResult'.result[1].history)
          /\ optResult'.result[1].stage = "soft"

\* C27: the soft run of a fallback starts from the initial point and the base
\* values of the strict run, and the returned history holds the soft run's
\* records only, numbered from 1
C27_FallbackStartsAfresh == [][FallbackStep]_vars

\* a soft result returned after a failed strict run, with the one record of the
\* soft run
C27_Witness ==
    /\ optPc = "returned"
    /\ strictRun.ran /\ ~strictRun.success
    /\ ReturnedResult.stage = "soft"
    /\ Len(ReturnedResult.history) = 1
    /\ ReturnedResult.history[1].iteration = 1

\* the point of the record rec as the mapping the callback computed on
PointOf(rec) == rec.variables @@ optValues

\* the side expr of a constraint over the mapping computed that compute
\* returned: its number, or the value of the cell it names
SideOf(expr, computed) ==
    IF IsNumber(expr) THEN ParseInt(expr) ELSE computed[normalize_cell(expr)]

\* the violations of rec are the violation formula applied to run, the result
\* of compute at the record's point, for every constraint whose sides are
\* numbers or cells of that result
ViolationsOfComputeResult(rec, run) ==
    \A i \in DOMAIN schema.solver.constraints :
        LET c == schema.solver.constraints[i]
        IN  (\A e \in {c.lhs, c.rhs} : IsNumber(e) \/ normalize_cell(e) \in DOMAIN run.values)
            => rec.violations[i] = Violation(c.type, SideOf(c.lhs, run.values),
                                             SideOf(c.rhs, run.values))

\* C28: at every point the optimizer evaluates, a constraint side that names a
\* cell resolves to the value compute gives that cell at that point, so the
\* violations reported are the violation formula applied to the compute result
\* of the point, also when the starting mapping holds an entry for a formula cell
C28_ViolationsFollowCompute ==
    \A k \in DOMAIN optHistory :
        ViolationsOfComputeResult(optHistory[k],
                                  ComputedValues(compute(engine, PointOf(optHistory[k]))))

\* the condition the solver holds a constraint dict to: fun(x) = 0 for "eq",
\* fun(x) >= 0 for "ineq"
SolverCondition(d) == IF d.type = "eq" THEN d.fun.val = 0 ELSE d.fun.val >= 0

\* every constraint of cs has a dict in handed, of type "eq" exactly for eq,
\* whose condition holds exactly when its violation in cv is 0
AgreesWithViolations(cs, handed, cv) ==
    /\ cv.ok
    /\ Len(handed) = Len(cs)
    /\ \A i \in DOMAIN cs :
          /\ handed[i].fun.ok
          /\ handed[i].type = "eq" <=> cs[i].type = "eq"
          /\ SolverCondition(handed[i]) <=> cv.val.violations[i].num = 0

\* C29: in strict mode the solver's condition on each constraint function
\* (value >= 0 for le and ge, value = 0 for eq) holds at a point exactly when the
\* constraint's violation there is 0; in soft mode no constraint is handed over
C29_ConstraintsAgreeWithViolations ==
    Done("_build_constraints") =>
        IF fnCall.arg[2] THEN fnResult[1] = <<>>
        ELSE AgreesWithViolations(
                fnCall.arg[1], fnResult[1],
                _constraint_violations(engine, WithConstraints(fnCall.arg[1]),
                    _update_values(WithConstraints(fnCall.arg[1]), fnCall.arg[3],
                                   fnCall.arg[4])))

\* C7 <= 40 at C7 = 41 in strict mode: the function is negative
C29_Witness ==
    /\ Done("_build_constraints")
    /\ ~fnCall.arg[2]
    /\ fnCall.arg[1] = << Constraint("le", C7, <<"4","0">>) >>
    /\ fnCall.arg[4] = <<41, 2, 0, 0>>
    /\ fnResult[1][1].fun = Ok(-1)

\* returned has the keys of start and its entries but for the decision variables
SameButVariables(returned, start) ==
    /\ DOMAIN returned = DOMAIN start
    /\ \A c \in DOMAIN start \ Range(schema.solver.variables) : returned[c] = start[c]

\* no step of a call changes the starting mapping, and the values of a run's
\* result and of the returned result are the starting mapping with other
\* decision variables
ValuesStep ==
    /\ optPc /= "idle" => optValues' = optValues
    /\ optPc' = "ran" => SameButVariables(runResult'.values, optValues')
    /\ optPc' = "returned" => SameButVariables(optResult'.result[1].values, optValues')

\* C30: optimize does not modify the caller's starting mapping; the returned
\* values have the keys of the starting mapping, and every entry other than the
\* decision variables' is the starting value
C30_OnlyVariablesDiffer == [][ValuesStep]_vars

\* a returned mapping whose J7 is not the starting J7
C30_Witness ==
    /\ optPc = "returned"
    /\ ReturnedResult.values[J7] = 3
    /\ optValues[J7] = 5
    /\ DOMAIN ReturnedResult.values = DOMAIN optValues
====
